---- MODULE Spec2Model ----
(***************************************************************************)
(* Model of the text-authenticity pipeline of Virtual-Shield:              *)
(*   - the inference service  (src/services/text_detector.py)              *)
(*   - its callers            (src/api_server_v2.py)                       *)
(*   - the training script    (src/train_text_detector.py)                 *)
(* The module holds several specifications over one set of variables; each *)
(* specification drives one group of variables and leaves the others at    *)
(* their initial value.                                                     *)
(*   Spec       the serving process: request threads, the lazily built     *)
(*              singleton, _load_model, detect_text, health_check          *)
(*   SpecTrain  one training process: main() stage by stage, the artifact  *)
(*              files it writes                                            *)
(*   SpecLabel  download_and_prepare_data: label resolution                *)
(*   SpecAlign  _extract_features: reindex, fill, transform                *)
(*   SpecPrep   extract_features/prepare_training_data: column pruning,    *)
(*              split, normalizer fit, row pruning                         *)
(***************************************************************************)
EXTENDS Integers, Sequences, FiniteSets, TLC

VARIABLES
    \* ---- the artifact directory (shared by training and serving)
    disk,        \* file name -> content
    dirs,        \* directories that exist
    \* ---- the serving process
    instance,    \* _text_detector_instance: <<>> (None) or <<id>>
    heap,        \* the TextDetectorService objects constructed so far
    pc,          \* per request thread: where it is
    svc,         \* per request thread: the service object it holds (0: none)
    out,         \* the answer the step just taken returned, if it returned one
    \* ---- the training process
    tpc,         \* the stage main() is in
    run,         \* number of the training run
    texc,        \* the stage whose exception ended the run ("none": no exception)
    disk0,       \* the artifact directory as the run found it
    fitend,      \* how model.fit of the run ended
    \* ---- label resolution
    csv,         \* the label and text columns of the corpus file
    quick,       \* --quick-test
    ldone,       \* download_and_prepare_data has returned or raised
    df,          \* the rows it returns
    \* ---- inference feature alignment
    manifest,    \* feature_columns as loaded
    computed,    \* the mapping td.extract_metrics produced
    fitted,      \* the loaded scaler
    aligned,     \* df_aligned
    scaled,      \* the result of scaler.transform
    astage,      \* "input" or "done"
    \* ---- training data preparation
    corpus,      \* the rows td.extract_df returned, with their labels
    df_final,    \* the columns of the frame extract_features returns
    pstage,      \* where the preparation is
    parts,       \* X_train / X_val / X_test as split
    feature_columns,  \* X.columns.tolist()
    train_scaler,     \* the StandardScaler as fitted
    x_scaled,    \* the rows handed on to the classifier, per partition
    rerun,       \* a second run on the same training rows
    query,       \* a raw feature vector met at inference
    served,      \* what _extract_features returns for it
    net,         \* the classifier: its input shape, training state, weights
    report,      \* the metrics evaluate_model returned
    saved,       \* what save_artifacts wrote
    \* ---- detect_text on drawn inputs
    prob,        \* the probability the forward pass returned
    verdict,     \* the result dictionary built from it
    answer,      \* what detect_text returned for the drawn artifacts
    \* ---- detect_text step by step
    frame,       \* the call of detect_text: position, arguments, locals
    \* ---- TextExtractor.extract_text
    xcall,       \* the call of extract_text: position, file, outcome
    \* ---- the NaN mask of prepare_training_data on one partition
    prune,       \* position, the partition's rows in order, arrays returned
    \* ---- model.fit with its callbacks
    history,     \* epochs run, validation losses, callback state, weights
    \* ---- the rate_limit decorator of the threaded server
    limiter      \* clock, request_counts, each request's position and locals

diskVars  == <<disk, dirs>>
serveVars == <<instance, heap, pc, svc, out>>
trainVars == <<tpc, run, texc, disk0, fitend>>
labelVars == <<csv, quick, ldone, df>>
alignVars == <<manifest, computed, fitted, aligned, scaled, astage>>
prepVars  == <<corpus, df_final, pstage, parts, feature_columns, train_scaler,
               x_scaled, rerun, query, served, net, report, saved>>
detectVars == <<prob, verdict, answer>>
moreVars == <<frame, xcall, prune, history, limiter>>
vars == <<disk, dirs, instance, heap, pc, svc, out, tpc, run, texc, disk0, fitend,
          csv, quick, ldone, df, manifest, computed, fitted, aligned, scaled, astage,
          corpus, df_final, pstage, parts, feature_columns, train_scaler,
          x_scaled, rerun, query, served, net, report, saved,
          prob, verdict, answer, frame, xcall, prune, history, limiter>>

-----------------------------------------------------------------------------
(* Floating point values as the pipeline sees them: a finite number or NaN. *)
(* Finite numbers are fixed-point integers.                                 *)

NaN == [k |-> "nan", v |-> 0]

Num(x) == [k |-> "num", v |-> x]

IsNaN(f) == f.k = "nan"

\* Positive and negative infinity.
PosInf == [k |-> "inf", v |-> 1]

NegInf == [k |-> "inf", v |-> -1]

IsFinite(f) == f.k = "num"

\* Fixed-point unit of the normalizer's mean and scale (one decimal).
FP == 10

\* Python's None and a present value, for object fields.
None == <<>>

Some(x) == <<x>>

-----------------------------------------------------------------------------
(* Feature alignment and scaling at inference.                              *)

\* The feature names the extractor can produce.
Names == {"f1", "f2", "f3"}

\* df_numeric.reindex(columns=feature_columns): one value per manifest entry,
\* NaN where the name was not computed; names outside the manifest vanish.
Reindex(feats, columns) ==
    [i \in 1..Len(columns) |->
        IF columns[i] \in DOMAIN feats THEN feats[columns[i]] ELSE NaN]

\* The reindexed row left as it is (no fillna).
NoFillNa(vec) == vec

\* .fillna(0)
FillNa(vec) ==
    [i \in 1..Len(vec) |-> IF IsNaN(vec[i]) THEN Num(0) ELSE vec[i]]

\* StandardScaler.transform: (x - mean) / scale per position; NaN passes
\* through; a width other than the fitted one (or no column at all) raises,
\* and so does an infinite value.
Transform(scaler, vec) ==
    IF \/ Len(vec) = 0
       \/ Len(vec) # Len(scaler.mean)
       \/ \E i \in 1..Len(vec) : vec[i].k = "inf"
    THEN [ok |-> FALSE, v |-> <<>>]
    ELSE [ok |-> TRUE,
          v  |-> [i \in 1..Len(vec) |->
                    IF IsNaN(vec[i]) THEN NaN
                    ELSE Num(((vec[i].v * FP - scaler.mean[i]) * FP)
                               \div scaler.scale[i])]]

\* TextDetectorService._extract_features after td.extract_metrics:
\* reindex, fill, transform (the reshape keeps the values).
AlignFeatures(feats, columns) == FillNa(Reindex(feats, columns))

ExtractFeaturesSvc(feats, columns, scaler) ==
    Transform(scaler, AlignFeatures(feats, columns))

-----------------------------------------------------------------------------
(* SpecAlign: _extract_features applied to every manifest, every mapping of *)
(* computed features and a fitted scaler of the manifest's width.           *)

\* Longest manifest drawn.
MaxManifest == 3

\* The values a computed feature takes here.
FeatureValues == {NaN, Num(0), Num(3), PosInf, NegInf}

\* Every mapping from some of the names to a value.
ComputedSet == UNION {[D -> FeatureValues] : D \in SUBSET Names}

Range(s) == {s[i] : i \in DOMAIN s}

\* Manifests: lists of distinct names (X.columns.tolist() of a training run).
ManifestSet ==
    UNION {{m \in [1..n -> Names] : Cardinality(Range(m)) = n} :
             n \in 0..MaxManifest}

\* Two fitted scalers of width n: mean 0 / scale 1, and a sloped one.
ScalerSet(n) ==
    {[mean |-> [i \in 1..n |-> 0], scale |-> [i \in 1..n |-> FP]],
     [mean |-> [i \in 1..n |-> 5 * i], scale |-> [i \in 1..n |-> FP + 5 * i]]}

NoScaler == [mean |-> <<>>, scale |-> <<>>]

AlignIdle ==
    /\ manifest = <<>>
    /\ computed = <<>>
    /\ fitted = NoScaler
    /\ aligned = <<>>
    /\ scaled = [ok |-> FALSE, v |-> <<>>]
    /\ astage = "off"

\* One call of _extract_features on the drawn input.
ExtractFeaturesCall ==
    /\ astage = "input"
    /\ aligned' = AlignFeatures(computed, manifest)
    /\ scaled' = ExtractFeaturesSvc(computed, manifest, fitted)
    /\ astage' = "done"
    /\ UNCHANGED <<manifest, computed, fitted>>
    /\ UNCHANGED <<diskVars, serveVars, trainVars, labelVars, prepVars, detectVars, moreVars>>

-----------------------------------------------------------------------------
(* Training data: extract_features and prepare_training_data.               *)
(* Rows that carry the same label and the same feature values are           *)
(* interchangeable, so a table is a bag of rows: per label, per feature     *)
(* vector, the number of rows.                                              *)

\* The labels download_and_prepare_data hands on (HUMAN=0, AI=1).
Labels == {0, 1}

\* The columns td.extract_df produces, in its order.
Cols == <<"f1", "f2">>

\* The feature vectors a row takes here (one value per column of Cols).
Vectors == {<<Num(0), Num(1)>>, <<Num(2), NaN>>, <<NaN, Num(3)>>}

\* Class sizes <<HUMAN, AI>> of the corpora drawn: one that splits into
\* 8/1/1, and two too small to split, of an even and an odd number of rows.
CorpusShapes == {<<8, 2>>, <<2, 2>>, <<2, 1>>}

RECURSIVE SumOver(_, _)
SumOver(f, S) ==
    IF S = {} THEN 0
    ELSE LET e == CHOOSE x \in S : TRUE
         IN  f[e] + SumOver(f, S \ {e})

NoRows == [l \in Labels |-> [v \in Vectors |-> 0]]

ClassCount(b, l) == SumOver(b[l], Vectors)

ClassCounts(b) == [l \in Labels |-> ClassCount(b, l)]

Size(b) == SumOver(ClassCounts(b), Labels)

Plus(a, b) == [l \in Labels |-> [v \in Vectors |-> a[l][v] + b[l][v]]]

Minus(a, b) == [l \in Labels |-> [v \in Vectors |-> a[l][v] - b[l][v]]]

\* The bags of n rows of one class.
BagsOfSize(n) == {s \in [Vectors -> 0..n] : SumOver(s, Vectors) = n}

\* The sub-bags of n rows of the class bag c.
SubBags(c, n) == {s \in BagsOfSize(n) : \A v \in Vectors : s[v] <= c[v]}

\* The bags with n0 rows of label 0 and n1 rows of label 1.
BagsOfShape(n0, n1) ==
    {[l \in Labels |-> IF l = 0 THEN a ELSE b] :
        a \in BagsOfSize(n0), b \in BagsOfSize(n1)}

\* The bags with the labels of b.
BagsLike(b) == BagsOfShape(ClassCount(b, 0), ClassCount(b, 1))

CorpusSet == UNION {BagsOfShape(sh[1], sh[2]) : sh \in CorpusShapes}

ColIndex(name) == CHOOSE i \in 1..Len(Cols) : Cols[i] = name

\* Number of rows of b whose column i is not missing.
NonMissing(b, i) ==
    SumOver([p \in Labels \X Vectors |->
                IF IsNaN(p[2][i]) THEN 0 ELSE b[p[1]][p[2]]],
            Labels \X Vectors)

\* df_features.dropna(thresh=int(0.5 * len(df_features)), axis=1): a column
\* stays when at least thresh of its values are present.
PruneColumns(b) ==
    LET thresh == Size(b) \div 2
    IN  SelectSeq(Cols, LAMBDA name : NonMissing(b, ColIndex(name)) >= thresh)

\* The columns of df_final: the text column td.extract_df puts first (never
\* missing, so never pruned), the feature columns kept, the label column.
FinalColumns(b) == <<"text">> \o PruneColumns(b) \o <<"label">>

\* X = df_final.drop(columns=["label", "text"], errors='ignore')
XColumns(columns) == SelectSeq(columns, LAMBDA c : c \notin {"label", "text"})

\* A third of the rows held out instead of a fifth.
CeilThird(n) == (n + 2) \div 3

\* ceil(test_size * n_samples) for test_size 0.2 and 0.5.
CeilFifth(n) == (2 * n + 9) \div 10

CeilHalf(n) == (n + 1) \div 2

\* sklearn's _approximate_mode: n_draws rows shared out over the classes in
\* proportion to their counts; the rows left after rounding down go to the
\* classes with the largest remainders, ties broken by the seeded generator.
ApproximateMode(counts, n_draws) ==
    LET total == SumOver(counts, Labels)
        floored == [l \in Labels |-> (n_draws * counts[l]) \div total]
        remainder == [l \in Labels |-> (n_draws * counts[l]) % total]
    IN  {a \in [Labels -> 0..n_draws] :
            /\ \A l \in Labels : a[l] \in {floored[l], floored[l] + 1}
            /\ SumOver(a, Labels) = n_draws
            /\ \A j, k \in Labels :
                  a[j] > floored[j] /\ a[k] = floored[k]
                      => remainder[j] >= remainder[k]}

\* The ways to take a[l] rows of each class l out of b.
FirstParts(b, a) ==
    {[l \in Labels |-> IF l = 0 THEN s0 ELSE s1] :
        s0 \in SubBags(b[0], a[0]), s1 \in SubBags(b[1], a[1])}

\* train_test_split(..., test_size, stratify=y): the <<first, second>> pairs
\* the shuffle can produce; empty when it raises ValueError.
StratifiedSplit(b, n_test) ==
    LET n_train == Size(b) - n_test
        counts == ClassCounts(b)
        n_classes == Cardinality({l \in Labels : counts[l] > 0})
    IN  IF \/ Size(b) = 0
           \/ n_train = 0
           \/ \E l \in Labels : counts[l] = 1
           \/ n_train < n_classes
           \/ n_test < n_classes
        THEN {}
        ELSE UNION {{[first |-> f, second |-> Minus(b, f)] :
                        f \in FirstParts(b, a)} :
                    a \in ApproximateMode(counts, n_train)}

\* The two calls of lines 207-213: 20% held out, then halved into validation
\* and test. Empty when either call raises.
Splits(b) ==
    UNION {{[train |-> one.first, val |-> two.first, test |-> two.second] :
                two \in StratifiedSplit(one.second, CeilHalf(Size(one.second)))} :
           one \in StratifiedSplit(b, CeilFifth(Size(b)))}

\* Largest r with r * r <= n, looked for up to hi.
ISqrt(n, hi) == CHOOSE r \in 0..hi : r * r <= n /\ (r + 1) * (r + 1) > n

\* StandardScaler.fit for column i: mean and standard deviation of the
\* values present (NaN is skipped), a zero deviation replaced by 1. A column
\* kept by PruneColumns has values present in every training partition.
ColumnFit(rows, i) ==
    LET W(g(_)) == SumOver([p \in Labels \X Vectors |->
                              IF IsNaN(p[2][i]) THEN 0
                              ELSE rows[p[1]][p[2]] * g(p[2][i].v)],
                           Labels \X Vectors)
        One(x) == 1
        Id(x) == x
        Sq(x) == x * x
        cnt == W(One)
        sum == W(Id)
        varnum == cnt * W(Sq) - sum * sum
    IN  [mean  |-> (sum * FP) \div cnt,
         scale |-> IF varnum = 0 THEN FP
                   ELSE ISqrt(varnum * FP * FP, cnt * FP * FP) \div cnt]

\* Every row of X, the held-out ones included.
FitRowsAll(p) == Plus(p.train, Plus(p.val, p.test))

\* The rows the normalizer is fitted on: X_train, as they were split.
FitRows(p) == p.train

\* scaler.fit(...) over the columns of X.
FitScaler(rows, columns) ==
    [mean  |-> [i \in 1..Len(columns) |-> ColumnFit(rows, ColIndex(columns[i])).mean],
     scale |-> [i \in 1..Len(columns) |-> ColumnFit(rows, ColIndex(columns[i])).scale]]

\* A row of X: the row's values in the columns kept.
Project(v, columns) == [i \in 1..Len(columns) |-> v[ColIndex(columns[i])]]

\* What prepare_training_data hands on for a row with raw values v: the
\* scaled row, unless the mask of lines 226-237 removes it (NaN in it).
TrainFeeds(scaler, columns, v) ==
    LET t == Transform(scaler, Project(v, columns))
    IN  [ok |-> t.ok /\ \A i \in 1..Len(t.v) : ~IsNaN(t.v[i]), v |-> t.v]

\* X_*_scaled after the mask: the rows kept, each with the raw values it
\* came from.
ScaledRows(scaler, columns, rows) ==
    {[raw |-> v, label |-> l, x |-> TrainFeeds(scaler, columns, v).v] :
        <<l, v>> \in {p \in Labels \X Vectors :
                        /\ rows[p[1]][p[2]] > 0
                        /\ TrainFeeds(scaler, columns, p[2]).ok}}

\* td.extract_metrics of a text whose features are v: every column of Cols.
AsMetrics(v) == [name \in Range(Cols) |-> v[ColIndex(name)]]

NoRerun == [ok |-> FALSE, val |-> NoRows, test |-> NoRows,
            feature_columns |-> <<>>, scaler |-> NoScaler]

PrepIdleFrom(stage) ==
    /\ pstage = stage
    /\ df_final = <<>>
    /\ parts = [train |-> NoRows, val |-> NoRows, test |-> NoRows]
    /\ feature_columns = <<>>
    /\ train_scaler = NoScaler
    /\ x_scaled = [train |-> {}, val |-> {}, test |-> {}]
    /\ rerun = NoRerun
    /\ query = <<>>
    /\ served = [ok |-> FALSE, v |-> <<>>]
    /\ net = None
    /\ report = None
    /\ saved = None

PrepIdle == corpus = NoRows /\ PrepIdleFrom("off")

-----------------------------------------------------------------------------
(* The artifact directory.                                                  *)

Artifacts == {"model", "scaler", "columns"}

Files == Artifacts \cup {"metrics"}

\* A file's content: the training run that wrote it and whether the write
\* was completed. Run 0 is a bundle published before the model starts.
Absent == [run |-> -1, whole |-> FALSE]

Written(r) == [run |-> r, whole |-> TRUE]

Torn(r) == [run |-> r, whole |-> FALSE]

Exists(d, f) == d[f] # Absent

\* What training run r saved: its manifest and its fitted scaler.
ColumnsOfRun(r) ==
    [run |-> r,
     names |-> IF r = 0 THEN <<"f2", "f1">> ELSE <<"f1", "f3">>]

ScalerOfRun(r) ==
    [run |-> r, mean |-> <<20 + 10 * r, 50>>, scale |-> <<FP, 2 * FP>>]

-----------------------------------------------------------------------------
(* The serving process.                                                     *)

\* Request threads of the threaded server.
NumThreads == 2

Threads == 1..NumThreads

\* A text: leading whitespace, stripped length, number of words.
Texts ==
    {[lead |-> 0, body |-> 0,  words |-> 0],
     [lead |-> 3, body |-> 0,  words |-> 0],
     [lead |-> 0, body |-> 9,  words |-> 2],
     [lead |-> 2, body |-> 10, words |-> 2],
     [lead |-> 0, body |-> 12, words |-> 3]}

NoText == [lead |-> -1, body |-> -1, words |-> -1]

TextLen(text) == text.lead + text.body

\* Minimum stripped length detect_text accepts.
MinTextLength == 10

\* `not text or len(text.strip()) < 10`
InvalidText(text) == TextLen(text) = 0 \/ text.body < MinTextLength

\* Default min_length of TextExtractor.validate_text.
DefaultMinLength == 10

\* TextExtractor.validate_text(text, min_length)
ValidateText(text, min_length) ==
    IF TextLen(text) = 0 \/ text.body < min_length THEN FALSE ELSE TRUE

\* td.extract_metrics(text=text, ...) minus the text column: a fixed function
\* of the text. Short texts leave a metric undefined.
TdMetrics(text) ==
    [n \in Names |->
        CASE n = "f1" -> Num(text.body)
          [] n = "f2" -> IF text.words < 3 THEN NaN ELSE Num(text.words)
          [] OTHER    -> Num(text.lead)]

\* round(x, 4): the decimals detect_text reports.
Decimals == 4

\* Probabilities are fixed-point with one more decimal than reported.
ProbUnit == 10 ^ (Decimals + 1)

RECURSIVE SumValues(_)
SumValues(vec) ==
    IF vec = <<>> THEN 0 ELSE vec[1].v + SumValues(Tail(vec))

\* model.predict(features)[0][0]: the forward pass, a fixed function of the
\* loaded weights (identified by the run that saved them) and the features.
Predict(weights, features) ==
    (SumValues(features) * 7919 + weights * 30011) % (ProbUnit + 1)

\* round(x, 4) of a probability: to the nearest multiple of 10 units, ties to
\* the even one.
Round4(x) ==
    LET q == x \div 10
        r == x % 10
    IN  IF r > 5 \/ (r = 5 /\ q % 2 = 1) THEN (q + 1) * 10 ELSE q * 10

Max(a, b) == IF a >= b THEN a ELSE b

\* Banding with the boundaries excluded.
BandStrict(confidence) ==
    IF 10 * confidence > 9 * ProbUnit THEN "high"
    ELSE IF 10 * confidence > 7 * ProbUnit THEN "medium"
    ELSE "low"

\* confidence banding of detect_text
Band(confidence) ==
    IF 10 * confidence >= 9 * ProbUnit THEN "high"
    ELSE IF 10 * confidence >= 7 * ProbUnit THEN "medium"
    ELSE "low"

\* A service object that is ready before anything is loaded.
NewServiceReady ==
    [model |-> None, scaler |-> None, feature_columns |-> None,
     nlp |-> FALSE, is_ready |-> TRUE]

\* A freshly constructed TextDetectorService (__init__ before _load_model).
NewService ==
    [model |-> None, scaler |-> None, feature_columns |-> None,
     nlp |-> FALSE, is_ready |-> FALSE]

\* detect_text from the prediction on (lines 139-164): the dictionary built
\* from the probability.
Verdict(ai_probability, text) ==
    LET human_probability == ProbUnit - ai_probability
        is_ai == 2 * ai_probability > ProbUnit
        confidence == Max(ai_probability, human_probability)
    IN  [success |-> TRUE,
         classification |-> IF is_ai THEN "AI-Generated" ELSE "Human-Written",
         ai_probability |-> Round4(ai_probability),
         human_probability |-> Round4(human_probability),
         confidence |-> Band(confidence),
         confidence_score |-> Round4(confidence),
         text_length |-> TextLen(text),
         word_count |-> text.words]

\* detect_text from feature extraction on: extract, predict, build the
\* result; an exception of a step is caught and reported. `ran` lists the
\* inference steps gone through, `features` the array handed to the
\* classifier and `res` the dictionary returned.
InferOn(s, text, metrics) ==
    IF s.model = None \/ s.scaler = None \/ s.feature_columns = None
    THEN [ran |-> {"extract"}, features |-> <<>>,
          res |-> [error |-> "Detection failed"]]
    ELSE LET features == ExtractFeaturesSvc(metrics,
                                            s.feature_columns[1].names,
                                            s.scaler[1])
         IN  IF ~features.ok
             THEN [ran |-> {"extract"}, features |-> <<>>,
                   res |-> [error |-> "Detection failed"]]
             ELSE [ran |-> {"extract", "predict"}, features |-> features.v,
                   res |-> Verdict(Predict(s.model[1], features.v), text)]

\* The same for the metrics td.extract_metrics computes for the text.
Infer(s, text) == InferOn(s, text, TdMetrics(text))

\* detect_text without its validation of the text.
DetectTextUnvalidated(s, text, metrics) ==
    IF ~s.is_ready
    THEN [ran |-> {}, features |-> <<>>,
          res |-> [error |-> "Model not loaded"]]
    ELSE InferOn(s, text, metrics)

\* TextDetectorService.detect_text on service object s, for a text of which
\* td.extract_metrics computes `metrics`.
DetectTextOn(s, text, metrics) ==
    IF ~s.is_ready
    THEN [ran |-> {}, features |-> <<>>,
          res |-> [error |-> "Model not loaded"]]
    ELSE IF InvalidText(text)
    THEN [ran |-> {}, features |-> <<>>,
          res |-> [error |-> "Invalid input"]]
    ELSE InferOn(s, text, metrics)

\* detect_text without its readiness gate.
DetectTextNoGate(s, text) ==
    IF InvalidText(text)
    THEN [ran |-> {}, features |-> <<>>,
          res |-> [error |-> "Invalid input"]]
    ELSE Infer(s, text)

\* TextDetectorService.detect_text on service object s.
DetectText(s, text) == DetectTextOn(s, text, TdMetrics(text))

\* detect_text refitting the scaler on the sample (fit_transform for
\* transform).
ServiceAfterRefit(s, text) ==
    IF s.is_ready /\ ~InvalidText(text)
    THEN LET row == AlignFeatures(TdMetrics(text), s.feature_columns[1].names)
         IN  [s EXCEPT !.scaler =
                 Some([run |-> s.scaler[1].run,
                       mean |-> [i \in 1..Len(row) |-> row[i].v * FP],
                       scale |-> [i \in 1..Len(row) |-> FP]])]
    ELSE s

\* The service object after detect_text(text) returned: no field is assigned.
ServiceAfterDetect(s, text) == s

\* TextDetectorService.health_check
HealthCheck(s) ==
    [healthy |-> s.is_ready,
     model_loaded |-> s.model # None,
     scaler_loaded |-> s.scaler # None,
     nlp_loaded |-> s.nlp,
     features_loaded |-> s.feature_columns # None,
     num_features |-> IF s.feature_columns # None /\ Len(s.feature_columns[1].names) > 0
                      THEN Len(s.feature_columns[1].names) ELSE 0]

\* Object ids: one per thread that may be constructing, one for the global.
ObjIds == 1..(NumThreads + 1)

\* A heap slot holding no object.
Freed == [freed |-> TRUE]

\* The service object thread t holds.
Obj(t) == heap[svc[t]]

\* Garbage collection: an object neither the global nor a thread refers to
\* is gone.
Collect(h, global, locals) ==
    [i \in ObjIds |->
        IF global = Some(i) \/ \E t \in Threads : locals[t] = i
        THEN h[i] ELSE Freed]

\* The id a new object gets.
FreshId == CHOOSE i \in ObjIds : heap[i] = Freed /\ \A j \in ObjIds : j < i => heap[j] # Freed

NoAnswer == [op |-> "none", inst |-> 0, text |-> NoText, ran |-> {},
             features |-> <<>>, res |-> [none |-> TRUE]]

ServeIdle ==
    /\ instance = None
    /\ heap = [i \in ObjIds |-> Freed]
    /\ pc = [t \in Threads |-> "idle"]
    /\ svc = [t \in Threads |-> 0]
    /\ out = NoAnswer

\* A request arrives and its handler (analyze_text, api_info) or another
\* user of the module calls get_text_detector().
StartRequest(t) ==
    /\ pc[t] = "idle"
    /\ pc' = [pc EXCEPT ![t] = "get"]
    /\ out' = NoAnswer
    /\ UNCHANGED <<instance, heap, svc>>
    /\ UNCHANGED <<diskVars, trainVars, labelVars, alignVars, prepVars, detectVars, moreVars>>

\* get_text_detector: `if _text_detector_instance is None`
GetCheck(t) ==
    /\ pc[t] = "get"
    /\ pc' = [pc EXCEPT ![t] = IF instance = None THEN "init" ELSE "return"]
    /\ out' = NoAnswer
    /\ UNCHANGED <<instance, heap, svc>>
    /\ UNCHANGED <<diskVars, trainVars, labelVars, alignVars, prepVars, detectVars, moreVars>>

\* TextDetectorService.__init__ up to the call of _load_model
Construct(t) ==
    /\ pc[t] = "init"
    /\ heap' = [heap EXCEPT ![FreshId] = NewService]
    /\ svc' = [svc EXCEPT ![t] = FreshId]
    /\ pc' = [pc EXCEPT ![t] = "exists"]
    /\ out' = NoAnswer
    /\ UNCHANGED instance
    /\ UNCHANGED <<diskVars, trainVars, labelVars, alignVars, prepVars, detectVars, moreVars>>

\* `all([model_path.exists(), scaler_path.exists(), columns_path.exists()])`
AllExist(d) == \A f \in Artifacts : Exists(d, f)

\* _load_model: the existence check; a missing file ends the load quietly.
LoadExists(t) ==
    /\ pc[t] = "exists"
    /\ pc' = [pc EXCEPT ![t] = IF AllExist(disk) THEN "load_model" ELSE "assign"]
    /\ out' = NoAnswer
    /\ UNCHANGED <<instance, heap, svc>>
    /\ UNCHANGED <<diskVars, trainVars, labelVars, alignVars, prepVars, detectVars, moreVars>>

\* The except branch of _load_model: is_ready = False, raise. The exception
\* leaves __init__ and get_text_detector; the handler answers with an error.
LoadRaises(t) ==
    /\ svc' = [svc EXCEPT ![t] = 0]
    /\ heap' = Collect([heap EXCEPT ![svc[t]].is_ready = FALSE], instance, svc')
    /\ pc' = [pc EXCEPT ![t] = "idle"]
    /\ out' = [NoAnswer EXCEPT !.op = "get_text_detector", !.res = [exception |-> TRUE]]
    /\ UNCHANGED instance

\* The fields a step of _load_model sets when file f reads back whole.
LoadedField(s, f, content) ==
    CASE f = "model"  -> [s EXCEPT !.model = Some(content.run)]
      [] f = "scaler" -> [s EXCEPT !.scaler = Some(ScalerOfRun(content.run))]
      [] OTHER        -> [s EXCEPT !.feature_columns = Some(ColumnsOfRun(content.run))]

\* _load_model: load_model(...), joblib.load(...), json.load(...): one file
\* read each. A file that is absent or was not written completely raises.
LoadFile(t, f, at, next) ==
    /\ pc[t] = at
    /\ \/ /\ disk[f].whole
          /\ heap' = [heap EXCEPT ![svc[t]] = LoadedField(@, f, disk[f])]
          /\ pc' = [pc EXCEPT ![t] = next]
          /\ out' = NoAnswer
          /\ UNCHANGED <<instance, svc>>
       \/ /\ ~disk[f].whole
          /\ LoadRaises(t)
    /\ UNCHANGED <<diskVars, trainVars, labelVars, alignVars, prepVars, detectVars, moreVars>>

LoadModelFile(t) == LoadFile(t, "model", "load_model", "load_scaler")

LoadScalerFile(t) == LoadFile(t, "scaler", "load_scaler", "load_columns")

LoadColumnsFile(t) == LoadFile(t, "columns", "load_columns", "load_nlp")

\* _load_model: spacy.load and add_pipe
LoadNlp(t) ==
    /\ pc[t] = "load_nlp"
    /\ heap' = [heap EXCEPT ![svc[t]].nlp = TRUE]
    /\ pc' = [pc EXCEPT ![t] = "ready"]
    /\ out' = NoAnswer
    /\ UNCHANGED <<instance, svc>>
    /\ UNCHANGED <<diskVars, trainVars, labelVars, alignVars, prepVars, detectVars, moreVars>>

\* _load_model: self.is_ready = True
SetReady(t) ==
    /\ pc[t] = "ready"
    /\ heap' = [heap EXCEPT ![svc[t]].is_ready = TRUE]
    /\ pc' = [pc EXCEPT ![t] = "assign"]
    /\ out' = NoAnswer
    /\ UNCHANGED <<instance, svc>>
    /\ UNCHANGED <<diskVars, trainVars, labelVars, alignVars, prepVars, detectVars, moreVars>>

\* get_text_detector: `_text_detector_instance = TextDetectorService()`
AssignInstance(t) ==
    /\ pc[t] = "assign"
    /\ instance' = Some(svc[t])
    /\ heap' = Collect(heap, instance', svc)
    /\ pc' = [pc EXCEPT ![t] = "return"]
    /\ out' = NoAnswer
    /\ UNCHANGED svc
    /\ UNCHANGED <<diskVars, trainVars, labelVars, alignVars, prepVars, detectVars, moreVars>>

\* get_text_detector: `return _text_detector_instance`
ReturnInstance(t) ==
    /\ pc[t] = "return"
    /\ svc' = [svc EXCEPT ![t] = instance[1]]
    /\ heap' = Collect(heap, instance, svc')
    /\ pc' = [pc EXCEPT ![t] = "have"]
    /\ out' = NoAnswer
    /\ UNCHANGED instance
    /\ UNCHANGED <<diskVars, trainVars, labelVars, alignVars, prepVars, detectVars, moreVars>>

\* The answer of a call on the held service object.
Answer(t, op, text, r) ==
    [op |-> op, inst |-> svc[t], text |-> text, ran |-> r.ran,
     features |-> r.features, res |-> r.res]

\* The handler returns, leaving its service object as `after`; its local
\* goes out of scope.
Finish(t, after) ==
    /\ pc' = [pc EXCEPT ![t] = "idle"]
    /\ svc' = [svc EXCEPT ![t] = 0]
    /\ heap' = Collect([heap EXCEPT ![svc[t]] = after], instance, svc')
    /\ UNCHANGED instance
    /\ UNCHANGED <<diskVars, trainVars, labelVars, alignVars, prepVars, detectVars, moreVars>>

\* analyze_text after get_text_detector: 503 when not ready, 400 for a text
\* that fails the handler's own validation, else detect_text.
AnalyzeText(t) ==
    /\ pc[t] = "have"
    /\ \E text \in Texts :
          IF ~Obj(t).is_ready
          THEN /\ out' = Answer(t, "analyze_text", NoText,
                                [ran |-> {}, features |-> <<>>,
                                 res |-> [error |-> "Text detector not ready"]])
               /\ Finish(t, Obj(t))
          ELSE IF InvalidText(text)
          THEN /\ out' = Answer(t, "analyze_text", text,
                                [ran |-> {}, features |-> <<>>,
                                 res |-> [error |-> "Invalid text"]])
               /\ Finish(t, Obj(t))
          ELSE /\ out' = Answer(t, "analyze_text", text, DetectText(Obj(t), text))
               /\ Finish(t, ServiceAfterDetect(Obj(t), text))

\* api_info after get_text_detector: health_check
ApiInfo(t) ==
    /\ pc[t] = "have"
    /\ out' = Answer(t, "health_check", NoText,
                     [ran |-> {}, features |-> <<>>, res |-> HealthCheck(Obj(t))])
    /\ Finish(t, Obj(t))

\* detect_text called on the object get_text_detector returned, by a user
\* of the module other than analyze_text (no readiness check before it)
CallDetectText(t) ==
    /\ pc[t] = "have"
    /\ \E text \in Texts :
          /\ out' = Answer(t, "detect_text", text, DetectText(Obj(t), text))
          /\ Finish(t, ServiceAfterDetect(Obj(t), text))

NoDetection == [ran |-> {}, features |-> <<>>, res |-> [none |-> TRUE]]

\* No call of detect_text under way.
NoFrame == [pc |-> "off"]

FrameIdle == frame = NoFrame

\* No call of extract_text under way.
NoXCall == [pc |-> "off"]

XCallIdle == xcall = NoXCall

\* No partition being pruned.
NoPrune == [pc |-> "off"]

PruneIdle == prune = NoPrune

\* No fit under way.
NoFit == [pc |-> "off"]

FitIdle == history = NoFit

\* No rate-limited request served.
NoLimiter == [pc |-> "off"]

LimiterIdle == limiter = NoLimiter

MoreIdle == FrameIdle /\ XCallIdle /\ PruneIdle /\ FitIdle /\ LimiterIdle

DetectIdle ==
    /\ prob = -1
    /\ verdict = None
    /\ answer = NoDetection

\* No artifact directory yet.
DiskIdle ==
    /\ disk = [f \in Files |-> Absent]
    /\ dirs = {}

\* The artifact directory the serving process starts on: each artifact file
\* absent, published by an earlier run (run 0), or left torn by one.
InitDisk ==
    /\ disk \in [Files -> {Absent, Written(0), Torn(0)}]
    /\ disk["metrics"] = disk["model"]
    /\ dirs = {"models", "data"}

TrainIdle ==
    /\ tpc = "off"
    /\ run = 0
    /\ texc = "none"
    /\ disk0 = disk
    /\ fitend = "none"

LabelIdle ==
    /\ csv = [exists |-> FALSE, rows |-> <<>>, texts |-> <<>>]
    /\ quick = FALSE
    /\ ldone = "off"
    /\ df = {}

Init ==
    /\ InitDisk
    /\ ServeIdle
    /\ TrainIdle
    /\ LabelIdle
    /\ PrepIdle
    /\ DetectIdle
    /\ MoreIdle
    /\ AlignIdle

Next ==
    \E t \in Threads :
        \/ StartRequest(t)
        \/ GetCheck(t)
        \/ Construct(t)
        \/ LoadExists(t)
        \/ LoadModelFile(t)
        \/ LoadScalerFile(t)
        \/ LoadColumnsFile(t)
        \/ LoadNlp(t)
        \/ SetReady(t)
        \/ AssignInstance(t)
        \/ ReturnInstance(t)
        \/ AnalyzeText(t)
        \/ ApiInfo(t)
        \/ CallDetectText(t)

Spec == Init /\ [][Next]_vars

-----------------------------------------------------------------------------
(* SpecTrain: the training script, run after run, on the artifact           *)
(* directory.                                                               *)

\* Training runs started.
MaxRuns == 2

\* The stages of main() before save_artifacts, in order;
\* prepare_training_data step by step: the two train_test_split calls,
\* scaler.fit_transform on the training rows, scaler.transform on the
\* validation and test rows.
Stages ==
    <<"setup", "data", "features", "split", "fit_scaler", "transform",
      "build", "fit", "evaluate">>

\* How model.fit ends: all epochs run, or EarlyStopping stopped it.
FitEndings == {"converged", "stopped_early"}

PrePersist == Range(Stages)

\* save_artifacts file by file: about to open the file, then writing it.
SaveSteps ==
    <<"save_model", "write_model", "save_scaler", "write_scaler",
      "save_columns", "write_columns", "save_metrics", "write_metrics">>

\* The file a step of save_artifacts works on.
FileOf(step) ==
    CASE step \in {"save_model", "write_model"}     -> "model"
      [] step \in {"save_scaler", "write_scaler"}   -> "scaler"
      [] step \in {"save_columns", "write_columns"} -> "columns"
      [] OTHER                                      -> "metrics"

Pipeline == Stages \o SaveSteps \o <<"done">>

\* main() going from the fit straight to save_artifacts.
NextStepUnevaluated(at) ==
    LET i == CHOOSE j \in 1..Len(Pipeline) : Pipeline[j] = at
    IN  IF at = "fit" THEN "save_model" ELSE Pipeline[i + 1]

\* The step after `at` in main().
NextStep(at) ==
    LET i == CHOOSE j \in 1..Len(Pipeline) : Pipeline[j] = at
    IN  Pipeline[i + 1]

\* A training stage that checkpoints the weights file while it works.
StageWritesCheckpoint(stage) == IF stage = "fit" THEN {"model"} ELSE {}

\* The artifact files a stage before save_artifacts writes: none.
\* setup_directories creates directories only; the fit has no checkpoint
\* callback.
StageWrites(stage) == {}

\* `python train_text_detector.py`: main() is entered.
StartRun ==
    /\ tpc \in {"off", "done", "failed"}
    /\ run < MaxRuns
    /\ run' = run + 1
    /\ tpc' = "setup"
    /\ texc' = "none"
    /\ disk0' = disk
    /\ fitend' = "none"
    /\ UNCHANGED <<diskVars, serveVars, labelVars, alignVars, prepVars, detectVars, moreVars>>

\* A stage of main() before save_artifacts completes: setup_directories,
\* download_and_prepare_data, extract_features, the steps of
\* prepare_training_data, build_model, train_model (model.fit returns after
\* the last epoch or after EarlyStopping), evaluate_model.
StageDone ==
    /\ tpc \in PrePersist
    /\ dirs' = IF tpc = "setup" THEN dirs \cup {"models", "data"} ELSE dirs
    /\ disk' = [f \in Files |->
                  IF f \in StageWrites(tpc) THEN Written(run) ELSE disk[f]]
    /\ tpc' = NextStep(tpc)
    /\ IF tpc = "fit" THEN fitend' \in FitEndings ELSE fitend' = fitend
    /\ UNCHANGED <<run, texc, disk0>>
    /\ UNCHANGED <<serveVars, labelVars, alignVars, prepVars, detectVars, moreVars>>

\* save_artifacts opens the next file for writing: model.save, joblib.dump,
\* open(path, 'w'). The file is created or its old content is cut.
SaveOpen ==
    /\ tpc \in {"save_model", "save_scaler", "save_columns", "save_metrics"}
    /\ disk' = [disk EXCEPT ![FileOf(tpc)] = Torn(run)]
    /\ tpc' = NextStep(tpc)
    /\ UNCHANGED <<dirs, run, texc, disk0, fitend>>
    /\ UNCHANGED <<serveVars, labelVars, alignVars, prepVars, detectVars, moreVars>>

\* save_artifacts finishes writing the open file.
SaveWrite ==
    /\ tpc \in {"write_model", "write_scaler", "write_columns", "write_metrics"}
    /\ disk' = [disk EXCEPT ![FileOf(tpc)] = Written(run)]
    /\ tpc' = NextStep(tpc)
    /\ UNCHANGED <<dirs, run, texc, disk0, fitend>>
    /\ UNCHANGED <<serveVars, labelVars, alignVars, prepVars, detectVars, moreVars>>

\* The run ends where it is: the step raises (main re-raises the exception)
\* or the process is killed.
RunFails ==
    /\ tpc \in Range(Stages \o SaveSteps)
    /\ tpc' = "failed"
    /\ texc' = tpc
    /\ UNCHANGED <<run, disk0, fitend>>
    /\ UNCHANGED <<diskVars, serveVars, labelVars, alignVars, prepVars, detectVars, moreVars>>

\* The artifact directory a first training run finds: empty, or holding the
\* bundle and metrics of an earlier run (run 0).
InitTrain ==
    /\ \/ disk = [f \in Files |-> Absent] /\ dirs \in {{}, {"models", "data"}}
       \/ disk = [f \in Files |-> Written(0)] /\ dirs = {"models", "data"}
    /\ TrainIdle
    /\ ServeIdle
    /\ LabelIdle
    /\ PrepIdle
    /\ DetectIdle
    /\ MoreIdle
    /\ AlignIdle

NextTrain == StartRun \/ StageDone \/ SaveOpen \/ SaveWrite \/ RunFails

SpecTrain == InitTrain /\ [][NextTrain]_vars

\* C8. Artifacts are published atomically as a set: whenever no training run
\* is at work (before a run, after a run that succeeded, after a run that
\* failed or was killed at any point), the artifact files on disk are all
\* completely written and all come from the same training run.
BundleAtomic ==
    tpc \in {"off", "done", "failed"} =>
        \A f, g \in Artifacts :
            Exists(disk, f) /\ Exists(disk, g) =>
                /\ disk[f].whole
                /\ disk[f].run = disk[g].run

\* C9. A training failure does not touch published artifacts: while main()
\* is in a stage before save_artifacts no step changes an artifact file, and
\* a run that failed in such a stage has ended with the error recorded and
\* the artifact directory's files as it found them.
PrePersistFrame ==
    /\ tpc \in PrePersist => disk' = disk
    /\ tpc' = "failed" /\ texc' \in PrePersist => disk' = disk0'

FailureKeepsArtifacts == [][PrePersistFrame]_vars

\* C9 witness: a second run failed in the fit and the bundle the first run
\* published is on disk.
FailureKeepsArtifactsWitness ==
    /\ tpc = "failed" /\ texc = "fit" /\ run = 2
    /\ \A f \in Files : disk[f] = Written(1)

-----------------------------------------------------------------------------
(* Properties of the serving process (Spec).                                *)

Live == {i \in ObjIds : heap[i] # Freed}

\* The steps of __init__/_load_model.
LoadingPcs ==
    {"exists", "load_model", "load_scaler", "load_columns", "load_nlp", "ready"}

\* Object i is still being constructed by some thread.
UnderConstruction(i) == \E t \in Threads : svc[t] = i /\ pc[t] \in LoadingPcs

MissingArtifacts == {f \in Artifacts : ~Exists(disk, f)}

\* C3. Readiness gate: when one or more of the three artifact files is
\* missing, construction ends without an exception, every service object
\* reports not ready, and every detect_text call returns the model-not-loaded
\* error: no inference step has run and the result holds neither a
\* probability nor a classification.
ReadinessGate ==
    MissingArtifacts # {} =>
        /\ \A i \in Live : ~heap[i].is_ready
        /\ out.op # "get_text_detector"
        /\ out.op = "health_check" => ~out.res.healthy
        /\ out.op = "detect_text" =>
              /\ out.res = [error |-> "Model not loaded"]
              /\ out.ran = {}
              /\ DOMAIN out.res \cap
                   {"classification", "ai_probability", "human_probability"} = {}

\* C3 witness: the manifest alone is missing and detect_text has answered a
\* valid text.
ReadinessGateWitness ==
    /\ MissingArtifacts = {"columns"}
    /\ out.op = "detect_text"
    /\ ~InvalidText(out.text)

\* C4. Single initialization: at most one TextDetectorService object exists
\* in the process and all callers hold the same one.
SingleInitialization ==
    /\ Cardinality(Live) <= 1
    /\ \A t, u \in Threads : pc[t] = "have" /\ pc[u] = "have" => svc[t] = svc[u]

\* C5. No partially-initialized service is observable: a ready object has
\* classifier, normalizer, manifest and language pipeline loaded, and an
\* object get_text_detector stored or returned has finished its load.
NoPartialService ==
    /\ \A i \in Live :
          heap[i].is_ready =>
              /\ heap[i].model # None
              /\ heap[i].scaler # None
              /\ heap[i].feature_columns # None
              /\ heap[i].nlp
    /\ instance # None => ~UnderConstruction(instance[1])
    /\ \A t \in Threads : pc[t] = "have" => ~UnderConstruction(svc[t])

\* C5 witness: one thread holds a ready service while another thread is in
\* the middle of _load_model.
NoPartialServiceWitness ==
    \E t, u \in Threads :
        /\ pc[t] = "have" /\ heap[svc[t]].is_ready
        /\ pc[u] = "load_scaler"

\* C6. Inference never mutates its artifacts: a step in which detect_text,
\* analyze_text or health_check answers leaves every service object and the
\* artifact files as they were, and the array a successful detect_text hands
\* to the classifier is the one the loaded manifest and normalizer, as they
\* were published, give for that text.
InferenceStepFrame ==
    out'.op \in {"detect_text", "analyze_text", "health_check"} =>
        /\ disk' = disk
        /\ \A i \in ObjIds : heap'[i] # Freed => heap'[i] = heap[i]
        /\ heap'[out'.inst] # Freed => heap'[out'.inst] = heap[out'.inst]
        /\ "success" \in DOMAIN out'.res =>
              LET s == heap[out'.inst]
              IN  out'.features =
                     ExtractFeaturesSvc(TdMetrics(out'.text),
                                        ColumnsOfRun(s.feature_columns[1].run).names,
                                        ScalerOfRun(s.scaler[1].run)).v

InferenceNeverMutates == [][InferenceStepFrame]_vars

\* C6 witness: detect_text has answered with a success while the service
\* object it ran on is still the one the process serves.
InferenceNeverMutatesWitness ==
    /\ out.op = "detect_text"
    /\ "success" \in DOMAIN out.res
    /\ instance = Some(out.inst)

-----------------------------------------------------------------------------
(* SpecAlign                                                                *)

InitAlign ==
    /\ manifest \in ManifestSet
    /\ computed \in ComputedSet
    /\ fitted \in ScalerSet(Len(manifest))
    /\ aligned = <<>>
    /\ scaled = [ok |-> FALSE, v |-> <<>>]
    /\ astage = "input"
    /\ DiskIdle
    /\ ServeIdle
    /\ TrainIdle
    /\ LabelIdle
    /\ PrepIdle
    /\ DetectIdle
    /\ MoreIdle

\* A ready service that loaded the drawn manifest and scaler.
LoadedService ==
    [model |-> Some(0),
     scaler |-> Some(fitted),
     feature_columns |-> Some([names |-> manifest]),
     nlp |-> TRUE, is_ready |-> TRUE]

\* One call of detect_text on that service, for a text that passes the
\* validation and of which td.extract_metrics computes `computed`.
DetectTextCall ==
    /\ astage = "input"
    /\ \E text \in {t \in Texts : ~InvalidText(t)} :
          answer' = DetectTextOn(LoadedService, text, computed)
    /\ astage' = "detected"
    /\ UNCHANGED <<manifest, computed, fitted, aligned, scaled, prob, verdict>>
    /\ UNCHANGED <<diskVars, serveVars, trainVars, labelVars, prepVars, moreVars>>

NextAlign == ExtractFeaturesCall \/ DetectTextCall

SpecAlign == InitAlign /\ [][NextAlign]_vars

\* Mappings that agree with `computed` on every name of the manifest.
AgreeOnManifest ==
    {c \in ComputedSet :
        \A n \in Range(manifest) :
            /\ (n \in DOMAIN c) = (n \in DOMAIN computed)
            /\ n \in DOMAIN c => c[n] = computed[n]}

\* C2 as stated. Reindex-and-fill: the aligned vector has the manifest's
\* length, position i holds the computed value of manifest[i] when that name
\* was computed and 0.0 when it was not, and computed features outside the
\* manifest have no effect.
ReindexFillAsStated ==
    astage = "done" =>
        /\ Len(aligned) = Len(manifest)
        /\ \A i \in 1..Len(manifest) :
              aligned[i] = IF manifest[i] \in DOMAIN computed
                           THEN computed[manifest[i]] ELSE Num(0)
        /\ \A c \in AgreeOnManifest : AlignFeatures(c, manifest) = aligned

\* C2 amended. As above, except that position i holds 0.0 also when the
\* computed value of manifest[i] is missing (NaN).
ReindexFill ==
    astage = "done" =>
        /\ Len(aligned) = Len(manifest)
        /\ \A i \in 1..Len(manifest) :
              aligned[i] = IF /\ manifest[i] \in DOMAIN computed
                              /\ ~IsNaN(computed[manifest[i]])
                           THEN computed[manifest[i]] ELSE Num(0)
        /\ \A c \in AgreeOnManifest : AlignFeatures(c, manifest) = aligned

\* C2 witness: a manifest of two names, the first computed with a number, the
\* second not computed, and a computed feature the manifest does not name.
ReindexFillWitness ==
    /\ astage = "done"
    /\ manifest = <<"f1", "f2">>
    /\ DOMAIN computed = {"f1", "f3"}
    /\ computed["f1"] = Num(3)
    /\ aligned = <<Num(3), Num(0)>>

-----------------------------------------------------------------------------
(* SpecLabel: download_and_prepare_data. The corpus file is its label       *)
(* column; a returned row is the index of the corpus row it came from and   *)
(* the label it now carries.                                                *)

MaxRows == 3

\* Raw label cells. read_csv turns an empty cell into NaN.
RawLabels == {"machine", "AI", "Human", "bot", "person"}

Str(s) == [k |-> "str", s |-> s]

RawCells == {Str(s) : s \in RawLabels} \cup {NaN}

\* Text cells of the corpus file: one of 9 characters, one of 12.
CsvTexts == {t \in Texts : t.lead = 0 /\ t.body > 0}

CsvSet ==
    {[exists |-> FALSE, rows |-> <<>>, texts |-> <<>>]} \cup
    UNION {{[exists |-> TRUE, rows |-> r, texts |-> t] :
                r \in [1..n -> RawCells], t \in [1..n -> CsvTexts]} :
           n \in 0..MaxRows}

label_map ==
    [s \in {"machine", "Machine", "MACHINE", "ai", "AI"} |-> 1] @@
    [s \in {"human", "Human", "HUMAN"} |-> 0]

\* Series.map(label_map): a cell that is no key of the map becomes NaN.
MapLabel(cell) ==
    IF ~IsNaN(cell) /\ cell.s \in DOMAIN label_map
    THEN Num(label_map[cell.s]) ELSE NaN

\* Series.unique(): the distinct cells in order of first appearance, NaN
\* counted as one value.
RECURSIVE Unique(_)
Unique(cells) ==
    IF cells = <<>> THEN <<>>
    ELSE LET n == Len(cells)
             front == Unique(SubSeq(cells, 1, n - 1))
         IN  IF cells[n] \in Range(front) THEN front
             ELSE Append(front, cells[n])

\* Elementwise ==, cast to int: NaN equals nothing.
EqInt(cell, val) ==
    IF ~IsNaN(cell) /\ ~IsNaN(val) /\ cell = val THEN Num(1) ELSE Num(0)

\* The fallback when no cell was mapped (lines 87-96).
FallbackLabels(rows) ==
    LET unique_vals == Unique(rows)
    IN  IF Len(unique_vals) = 2
        THEN [i \in DOMAIN rows |-> EqInt(rows[i], unique_vals[1])]
        ELSE rows

\* The label column before dropna (lines 80-96).
ResolveLabels(rows) ==
    LET mapped == [i \in DOMAIN rows |-> MapLabel(rows[i])]
    IN  IF /\ \E i \in DOMAIN mapped : IsNaN(mapped[i])
           /\ \A i \in DOMAIN mapped : IsNaN(mapped[i])
        THEN FallbackLabels(rows)
        ELSE mapped

\* dropna(subset=['label']).
DropNa(labels) ==
    {[idx |-> i, label |-> labels[i]] : i \in {j \in DOMAIN labels : ~IsNaN(labels[j])}}

QuickPerClass == 500

Min(a, b) == IF a <= b THEN a ELSE b

\* DataFrame.sample(n): some n of the rows.
Sample(rows, n) == {s \in SUBSET rows : Cardinality(s) = n}

\* Quick-test mode keeps min(500, n) rows of each class (lines 102-107).
QuickSubsets(rows) ==
    LET ai == {r \in rows : r.label = Num(1)}
        human == {r \in rows : r.label = Num(0)}
    IN  {a \cup h : a \in Sample(ai, Min(QuickPerClass, Cardinality(ai))),
                    h \in Sample(human, Min(QuickPerClass, Cardinality(human)))}

SpecLabelOthersUnchanged ==
    UNCHANGED <<diskVars, serveVars, trainVars, alignVars, prepVars, detectVars, moreVars>>

\* The corpus file is not there: FileNotFoundError (line 63).
PrepareRaises ==
    /\ ldone = "call"
    /\ ~csv.exists
    /\ ldone' = "raised"
    /\ UNCHANGED <<csv, quick, df>>
    /\ SpecLabelOthersUnchanged

DownloadAndPrepareData ==
    /\ ldone = "call"
    /\ csv.exists
    /\ LET kept == DropNa(ResolveLabels(csv.rows))
       IN  IF quick THEN df' \in QuickSubsets(kept) ELSE df' = kept
    /\ ldone' = "done"
    /\ UNCHANGED <<csv, quick>>
    /\ SpecLabelOthersUnchanged

InitLabel ==
    /\ csv \in CsvSet
    /\ quick \in BOOLEAN
    /\ ldone = "call"
    /\ df = {}
    /\ DiskIdle
    /\ ServeIdle
    /\ TrainIdle
    /\ AlignIdle
    /\ PrepIdle
    /\ DetectIdle
    /\ MoreIdle

NextLabel == PrepareRaises \/ DownloadAndPrepareData

SpecLabel == InitLabel /\ [][NextLabel]_vars

\* The meaning of a raw label: HUMAN=0 or AI=1 for a recognised spelling.
Resolvable(cell) == ~IsNaN(cell) /\ cell.s \in DOMAIN label_map

\* C10. Label resolution: every row download_and_prepare_data returns carries
\* a label in {HUMAN=0, AI=1} that is the meaning of the row's raw label, and
\* a row whose raw label is an unrecognised spelling or missing is not
\* returned (in particular not with label HUMAN).
LabelResolution ==
    ldone = "done" =>
        \A r \in df :
            /\ r.label \in {Num(0), Num(1)}
            /\ Resolvable(csv.rows[r.idx])
            /\ r.label = Num(label_map[csv.rows[r.idx].s])

-----------------------------------------------------------------------------
(* SpecPrep: extract_features and prepare_training_data on a corpus, then   *)
(* either the inference service meeting a raw feature vector, or a second   *)
(* run whose held-out rows differ.                                          *)

SpecPrepOthersUnchanged ==
    /\ UNCHANGED <<net, report, saved>>
    /\ UNCHANGED <<diskVars, serveVars, trainVars, labelVars, alignVars, detectVars, moreVars>>

\* extract_features: the columns with too many missing values go.
ExtractFeatures ==
    /\ pstage = "corpus"
    /\ df_final' = FinalColumns(corpus)
    /\ pstage' = "features"
    /\ UNCHANGED <<corpus, parts, feature_columns, train_scaler, x_scaled,
                   rerun, query, served>>
    /\ SpecPrepOthersUnchanged

\* prepare_training_data raises: a split that cannot be stratified, or no
\* column left to fit on.
PrepareDataRaises ==
    /\ pstage = "features"
    /\ Splits(corpus) = {} \/ XColumns(df_final) = <<>>
    /\ pstage' = "raised"
    /\ UNCHANGED <<corpus, df_final, parts, feature_columns, train_scaler,
                   x_scaled, rerun, query, served>>
    /\ SpecPrepOthersUnchanged

\* prepare_training_data: split, fit on the training rows, transform the
\* three partitions, drop the rows with NaN.
PrepareTrainingData ==
    /\ pstage = "features"
    /\ XColumns(df_final) # <<>>
    /\ \E p \in Splits(corpus) :
          LET columns == XColumns(df_final)
              s == FitScaler(FitRows(p), columns)
          IN  /\ parts' = p
              /\ feature_columns' = columns
              /\ train_scaler' = s
              /\ x_scaled' = [train |-> ScaledRows(s, columns, p.train),
                              val   |-> ScaledRows(s, columns, p.val),
                              test  |-> ScaledRows(s, columns, p.test)]
    /\ pstage' = "prepared"
    /\ UNCHANGED <<corpus, df_final, rerun, query, served>>
    /\ SpecPrepOthersUnchanged

\* The inference service, holding the manifest and scaler of this run, meets
\* a text whose raw features are v.
ServeExtract ==
    /\ pstage = "prepared"
    /\ \E v \in Vectors :
          /\ query' = v
          /\ served' = ExtractFeaturesSvc(AsMetrics(v), feature_columns, train_scaler)
    /\ pstage' = "served"
    /\ UNCHANGED <<corpus, df_final, parts, feature_columns, train_scaler,
                   x_scaled, rerun>>
    /\ SpecPrepOthersUnchanged

\* A second run on a corpus with the same labels in the same places and the
\* same rows where the seeded split puts the training partition; its
\* validation and test rows are any rows of the right labels.
SecondRun ==
    /\ pstage = "prepared"
    /\ \E val2 \in BagsLike(parts.val), test2 \in BagsLike(parts.test) :
          LET p2 == [train |-> parts.train, val |-> val2, test |-> test2]
              columns2 == XColumns(FinalColumns(Plus(p2.train, Plus(val2, test2))))
          IN  rerun' = IF columns2 = <<>> THEN [NoRerun EXCEPT !.val = val2, !.test = test2]
                       ELSE [ok |-> TRUE, val |-> val2, test |-> test2,
                             feature_columns |-> columns2,
                             scaler |-> FitScaler(FitRows(p2), columns2)]
    /\ pstage' = "rerun"
    /\ UNCHANGED <<corpus, df_final, parts, feature_columns, train_scaler,
                   x_scaled, query, served>>
    /\ SpecPrepOthersUnchanged

InitPrep ==
    /\ corpus \in CorpusSet
    /\ PrepIdleFrom("corpus")
    /\ DetectIdle
    /\ MoreIdle
    /\ DiskIdle
    /\ ServeIdle
    /\ TrainIdle
    /\ LabelIdle
    /\ AlignIdle

NextPrep ==
    \/ ExtractFeatures
    \/ PrepareDataRaises
    \/ PrepareTrainingData
    \/ ServeExtract
    \/ SecondRun

SpecPrep == InitPrep /\ [][NextPrep]_vars

\* C1. Train/serve parity: for a raw feature vector (missing values
\* included), what _extract_features hands the classifier at inference is
\* what prepare_training_data hands the classifier for a row with those raw
\* values, under the manifest and normalizer of the same run.
TrainServeParity ==
    pstage = "served" =>
        LET t == TrainFeeds(train_scaler, feature_columns, query)
        IN  /\ served.ok
            /\ t.ok
            /\ served.v = t.v

\* C7 as stated. No leakage: a second run with the same training rows and
\* other validation/test rows fits the same normalizer: the same features in
\* the same order, with the same mean and scale.
NoLeakageAsStated ==
    pstage = "rerun" /\ rerun.ok =>
        /\ rerun.feature_columns = feature_columns
        /\ rerun.scaler = train_scaler

\* C7 amended. A second run with the same training rows and other
\* validation/test rows fits, for every feature both runs keep, the same mean
\* and scale, and the features both runs keep stand in the same order.
NoLeakage ==
    pstage = "rerun" /\ rerun.ok =>
        /\ \A i \in 1..Len(feature_columns), j \in 1..Len(rerun.feature_columns) :
              feature_columns[i] = rerun.feature_columns[j] =>
                  /\ train_scaler.mean[i] = rerun.scaler.mean[j]
                  /\ train_scaler.scale[i] = rerun.scaler.scale[j]
        /\ \A i1, i2 \in 1..Len(feature_columns) :
              \A j1, j2 \in 1..Len(rerun.feature_columns) :
                  /\ feature_columns[i1] = rerun.feature_columns[j1]
                  /\ feature_columns[i2] = rerun.feature_columns[j2]
                  /\ i1 < i2
                  => j1 < j2

\* C7 witness: the first run kept both columns; the second run, whose
\* validation row differs and has a missing value, kept both as well, and the
\* training rows vary in both columns.
NoLeakageWitness ==
    /\ pstage = "rerun"
    /\ rerun.ok
    /\ feature_columns = Cols
    /\ rerun.feature_columns = Cols
    /\ rerun.val # parts.val
    /\ \E v \in Vectors : rerun.val[0][v] > 0 /\ \E i \in 1..Len(Cols) : IsNaN(v[i])
    /\ \A i \in 1..Len(Cols) : train_scaler.scale[i] # FP

\* Number of rows of b whose column i is missing.
Missing(b, i) == Size(b) - NonMissing(b, i)

\* C11. Column pruning: once extract_features has run on a corpus of N rows,
\* a column with k missing values over the corpus has been dropped exactly
\* when its missing-value rate is above 50% (2k > N), and is kept otherwise.
ColumnPruning ==
    pstage \notin {"off", "corpus"} =>
        \A i \in 1..Len(Cols) :
            (Cols[i] \notin Range(df_final))
                <=> (2 * Missing(corpus, i) > Size(corpus))

-----------------------------------------------------------------------------
(* SpecVerdict: detect_text from the prediction on, for probabilities on a  *)
(* grid and next to the boundaries.                                         *)

\* Steps of the probability grid.
ProbGrid == 200

Boundaries ==
    {ProbUnit \div 10, 3 * (ProbUnit \div 10), ProbUnit \div 2,
     7 * (ProbUnit \div 10), 9 * (ProbUnit \div 10)}

Probs ==
    {(k * ProbUnit) \div ProbGrid : k \in 0..ProbGrid}
        \cup {b + d : b \in Boundaries, d \in {-1, 0, 1}}

\* detect_text builds its result for a text that passed validation.
VerdictCall ==
    /\ verdict = None
    /\ prob \in Probs
    /\ \E text \in {t \in Texts : ~InvalidText(t)} :
          verdict' = Some(Verdict(prob, text))
    /\ UNCHANGED <<prob, answer>>
    /\ UNCHANGED <<diskVars, serveVars, trainVars, labelVars, alignVars, prepVars, moreVars>>

InitVerdict ==
    /\ prob \in Probs
    /\ verdict = None
    /\ answer = NoDetection
    /\ MoreIdle
    /\ DiskIdle
    /\ ServeIdle
    /\ TrainIdle
    /\ LabelIdle
    /\ AlignIdle
    /\ PrepIdle

SpecVerdict == InitVerdict /\ [][VerdictCall]_vars

\* C12. Decision threshold: the classification is AI-generated exactly when
\* the probability p is at least 0.5; p exactly 0.5 gives AI-generated with
\* confidence_score 0.5 and band low.
DecisionThreshold ==
    verdict # None =>
        /\ (verdict[1].classification = "AI-Generated") <=> (2 * prob >= ProbUnit)
        /\ 2 * prob = ProbUnit =>
              /\ verdict[1].confidence_score = ProbUnit \div 2
              /\ verdict[1].confidence = "low"

\* C13. Confidence banding: with score = max(p, 1-p) the band is high exactly
\* when score >= 0.9, medium exactly when 0.7 <= score < 0.9 and low exactly
\* when score < 0.7.
ConfidenceBanding ==
    verdict # None =>
        LET score == IF prob >= ProbUnit - prob THEN prob ELSE ProbUnit - prob
            band == verdict[1].confidence
        IN  /\ (band = "high") <=> (10 * score >= 9 * ProbUnit)
            /\ (band = "medium") <=>
                  (10 * score >= 7 * ProbUnit /\ 10 * score < 9 * ProbUnit)
            /\ (band = "low") <=> (10 * score < 7 * ProbUnit)

\* C13 witness: p = 0.1, whose score 0.9 sits on the upper boundary from the
\* human side, reported high.
ConfidenceBandingWitness ==
    /\ verdict # None
    /\ 10 * prob = ProbUnit
    /\ verdict[1].confidence = "high"
    /\ verdict[1].classification = "Human-Written"

\* C14. FeatureMismatch is surfaced: when the manifest is empty, or names no
\* feature the extractor computed (every position filled with 0.0),
\* detect_text returns an error and no classification or probability.
FeatureMismatchSurfaced ==
    (/\ astage = "detected"
     /\ Range(manifest) \cap DOMAIN computed = {})
        => /\ "error" \in DOMAIN answer.res
           /\ "classification" \notin DOMAIN answer.res
           /\ "ai_probability" \notin DOMAIN answer.res

\* C15. Manifest determinism: extraction followed by reindexing onto the
\* manifest gives the one vector the inputs determine, of the manifest's
\* length, every value of it finite, whatever the extractor produced (NaN,
\* an infinity, a finite number).
ManifestDeterminism ==
    astage = "done" =>
        /\ aligned = AlignFeatures(computed, manifest)
        /\ Len(aligned) = Len(manifest)
        /\ \A i \in 1..Len(aligned) : IsFinite(aligned[i])

-----------------------------------------------------------------------------
(* SpecBundle: one training run with its data, from the corpus to the       *)
(* saved bundle: extract_features, prepare_training_data, build_model,      *)
(* train_model, evaluate_model, save_artifacts.                             *)

\* Class sizes of the corpora drawn: one that splits into 12/2/2 with both
\* labels in every partition, one too small to split. Both classes hold the
\* same rows.
BundleShapes == {<<8, 8>>, <<2, 2>>}

BundleCorpusSet ==
    UNION {{c \in BagsOfShape(sh[1], sh[2]) : c[0] = c[1]} : sh \in BundleShapes}

\* The rows of a partition the NaN mask leaves (lines 226-237).
KeptRows(scaler, columns, rows) ==
    [l \in Labels |-> [v \in Vectors |->
        IF TrainFeeds(scaler, columns, v).ok THEN rows[l][v] ELSE 0]]

\* A classifier as wide as the extractor's output.
InputShapeRaw(columns) == <<Len(Cols), 1>>

\* input_shape = (X_train.shape[1], 1)
InputShape(columns) == <<Len(columns), 1>>

\* The weights a fit can end with.
MaxWeights == 2

\* a / b as a fixed-point number.
Ratio(a, b) == Num((a * ProbUnit) \div b)

\* evaluate_model on the test rows `test` (after the mask): the five metrics.
\* precision, recall and f1 of an empty denominator are 0.0 (sklearn warns);
\* roc_auc of a test set of one class is `undefined`.
Metrics(weights, scaler, columns, test, undefined) ==
    LET Kinds == Labels \X Vectors
        p(v) == Predict(weights, TrainFeeds(scaler, columns, v).v)
        pred(v) == IF 2 * p(v) > ProbUnit THEN 1 ELSE 0
        Count(l, y) == SumOver([k \in Kinds |->
                                  IF k[1] = l /\ pred(k[2]) = y
                                  THEN test[k[1]][k[2]] ELSE 0], Kinds)
        tp == Count(1, 1)
        fp == Count(0, 1)
        fn == Count(1, 0)
        tn == Count(0, 0)
        \* twice the number of (positive, negative) pairs ranked right
        ranked == SumOver([q \in Vectors \X Vectors |->
                             test[1][q[1]] * test[0][q[2]] *
                                 (IF p(q[1]) > p(q[2]) THEN 2
                                  ELSE IF p(q[1]) = p(q[2]) THEN 1 ELSE 0)],
                          Vectors \X Vectors)
    IN  [accuracy  |-> Ratio(tp + tn, tp + fp + fn + tn),
         precision |-> IF tp + fp = 0 THEN Num(0) ELSE Ratio(tp, tp + fp),
         recall    |-> IF tp + fn = 0 THEN Num(0) ELSE Ratio(tp, tp + fn),
         f1_score  |-> IF 2 * tp + fp + fn = 0 THEN Num(0)
                       ELSE Ratio(2 * tp, 2 * tp + fp + fn),
         roc_auc   |-> IF (tp + fn) * (fp + tn) = 0 THEN undefined
                       ELSE Ratio(ranked, 2 * (tp + fn) * (fp + tn))]

BundleOthersUnchanged ==
    /\ UNCHANGED <<corpus, df_final, parts, feature_columns, train_scaler,
                   x_scaled, rerun, query, served>>
    /\ UNCHANGED <<diskVars, serveVars, trainVars, labelVars, alignVars, detectVars, moreVars>>

\* build_model(input_shape): the compiled classifier.
BuildModel ==
    /\ pstage = "prepared"
    /\ net' = Some([input_shape |-> InputShape(feature_columns),
                    state |-> "compiled", weights |-> 0])
    /\ pstage' = "built"
    /\ UNCHANGED <<report, saved>>
    /\ BundleOthersUnchanged

\* train_model: model.fit on the training rows with the validation rows.
TrainModel ==
    /\ pstage = "built"
    /\ Size(KeptRows(train_scaler, feature_columns, parts.train)) > 0
    /\ Size(KeptRows(train_scaler, feature_columns, parts.val)) > 0
    /\ \E w \in 1..MaxWeights, ending \in FitEndings :
          net' = Some([net[1] EXCEPT !.state = ending, !.weights = w])
    /\ pstage' = "trained"
    /\ UNCHANGED <<report, saved>>
    /\ BundleOthersUnchanged

\* model.fit raises: the mask left no training row or no validation row.
TrainModelRaises ==
    /\ pstage = "built"
    /\ \/ Size(KeptRows(train_scaler, feature_columns, parts.train)) = 0
       \/ Size(KeptRows(train_scaler, feature_columns, parts.val)) = 0
    /\ pstage' = "raised"
    /\ UNCHANGED <<net, report, saved>>
    /\ BundleOthersUnchanged

\* evaluate_model on the test rows. For test rows of one label the library
\* either raises (EvaluateModelRaises) or returns NaN for roc_auc, by version.
EvaluateModel ==
    /\ pstage = "trained"
    /\ LET test == KeptRows(train_scaler, feature_columns, parts.test)
       IN  /\ Size(test) > 0
           /\ report' = Some(Metrics(net[1].weights, train_scaler,
                                     feature_columns, test, NaN))
    /\ pstage' = "evaluated"
    /\ UNCHANGED <<net, saved>>
    /\ BundleOthersUnchanged

\* evaluate_model raises: no test row to predict on, or roc_auc_score on
\* test rows of one label.
EvaluateModelRaises ==
    /\ pstage = "trained"
    /\ LET test == KeptRows(train_scaler, feature_columns, parts.test)
       IN  \E l \in Labels : ClassCount(test, l) = 0
    /\ pstage' = "raised"
    /\ UNCHANGED <<net, report, saved>>
    /\ BundleOthersUnchanged

\* save_artifacts(model, scaler, feature_columns, metrics): what the four
\* files hold.
SaveBundle ==
    /\ pstage = "evaluated"
    /\ saved' = Some([model |-> net[1], scaler |-> train_scaler,
                      columns |-> feature_columns, metrics |-> report[1]])
    /\ pstage' = "saved"
    /\ UNCHANGED <<net, report>>
    /\ BundleOthersUnchanged

InitBundle ==
    /\ corpus \in BundleCorpusSet
    /\ PrepIdleFrom("corpus")
    /\ DetectIdle
    /\ MoreIdle
    /\ DiskIdle
    /\ ServeIdle
    /\ TrainIdle
    /\ LabelIdle
    /\ AlignIdle

NextBundle ==
    \/ ExtractFeatures
    \/ PrepareDataRaises
    \/ PrepareTrainingData
    \/ BuildModel
    \/ TrainModel
    \/ TrainModelRaises
    \/ EvaluateModel
    \/ EvaluateModelRaises
    \/ SaveBundle

SpecBundle == InitBundle /\ [][NextBundle]_vars

MetricNames == {"accuracy", "precision", "recall", "f1_score", "roc_auc"}

\* C16. Bundle agreement: in a saved bundle the manifest is the ordered list
\* of the feature columns pruning kept (no label, no text column), the
\* normalizer holds one mean/scale pair per manifest entry in the manifest's
\* order, the classifier's input length is the manifest's length, and the
\* metrics report holds the five metrics, accuracy within [0,1].
BundleAgreement ==
    pstage = "saved" =>
        LET b == saved[1]
            n == Len(b.columns)
        IN  /\ b.columns = PruneColumns(corpus)
            /\ Len(b.scaler.mean) = n
            /\ Len(b.scaler.scale) = n
            /\ \A i \in 1..n :
                  LET fit == ColumnFit(parts.train, ColIndex(b.columns[i]))
                  IN  b.scaler.mean[i] = fit.mean /\ b.scaler.scale[i] = fit.scale
            /\ b.model.input_shape[1] = n
            /\ b.model.state \in FitEndings
            /\ DOMAIN b.metrics = MetricNames
            /\ IsFinite(b.metrics.accuracy)
            /\ b.metrics.accuracy.v \in 0..ProbUnit

\* C16 witness: a saved bundle of a run in which pruning dropped a column,
\* the two labels were told apart on some test rows and not on others.
BundleAgreementWitness ==
    /\ pstage = "saved"
    /\ Len(saved[1].columns) = 1
    /\ IsFinite(saved[1].metrics.roc_auc)
    /\ saved[1].metrics.accuracy.v \notin {0, ProbUnit}

\* ---------------------------------------------------------------------
\* The split of prepare_training_data over corpora of many class sizes.

\* Largest class size drawn.
MaxClass == 9

\* The rows of a class of n members: one row lacks the second feature when
\* the class has two rows or more, the others are complete.
ClassRows(n) ==
    [v \in Vectors |->
        IF v = <<Num(2), NaN>> THEN (IF n >= 2 THEN 1 ELSE 0)
        ELSE IF v = <<Num(0), Num(1)>> THEN (IF n >= 2 THEN n - 1 ELSE n)
        ELSE 0]

SplitCorpusSet ==
    {[l \in Labels |-> IF l = 0 THEN ClassRows(n0) ELSE ClassRows(n1)] :
        n0 \in 0..MaxClass, n1 \in 0..MaxClass}

InitSplit ==
    /\ corpus \in SplitCorpusSet
    /\ PrepIdleFrom("corpus")
    /\ DetectIdle
    /\ MoreIdle
    /\ DiskIdle
    /\ ServeIdle
    /\ TrainIdle
    /\ LabelIdle
    /\ AlignIdle

NextSplit ==
    \/ ExtractFeatures
    \/ PrepareDataRaises
    \/ PrepareTrainingData

SpecSplit == InitSplit /\ [][NextSplit]_vars

\* |a - b| < d
Near(a, b, d) == a - b < d /\ b - a < d

StageOrder ==
    <<"data", "features", "split", "fit_scaler", "transform", "build", "fit",
      "evaluate", "save_model">>

Persisting == Range(SaveSteps) \cup {"done"}

StageOrderStep ==
    /\ \A i \in 2..Len(StageOrder) :
          tpc' = StageOrder[i] /\ tpc # tpc' => tpc = StageOrder[i - 1]
    /\ tpc \in Range(StageOrder) \ {"save_model"} /\ tpc' \notin {tpc, "failed"} =>
          \E i \in 2..Len(StageOrder) :
              tpc = StageOrder[i - 1] /\ tpc' = StageOrder[i]
    /\ tpc' = "evaluate" /\ tpc # tpc' => fitend' \in FitEndings
    /\ tpc' \in Persisting => fitend' \in FitEndings
    /\ tpc' \in Persisting /\ tpc \notin Persisting => tpc = "evaluate"
    /\ tpc = "failed" => tpc' \in {"failed", "setup"}

\* C18. Training stage order: in every run of main() the stages are entered
\* in the order prepare corpus, extract features, split, fit the normalizer
\* on the training rows, transform the partitions, build, train, evaluate,
\* persist; a stage is entered only from the completed previous one, a
\* failed stage is followed by no later stage of the run, and persistence is
\* entered only from a completed evaluation after a fit that ran all its
\* epochs or was stopped early.
TrainingStageOrder == [][StageOrderStep]_vars

\* C18 witness: a second run, whose fit was stopped early, has persisted.
TrainingStageOrderWitness ==
    /\ tpc = "done" /\ run = 2 /\ fitend = "stopped_early"

\* ---------------------------------------------------------------------
\* The texts of the training corpus (SpecLabel).

\* texts = df["text"].astype(str).tolist(): the text of every row
\* download_and_prepare_data returned, handed to nlp.pipe.
TrainingTexts == {csv.texts[r.idx] : r \in df}

\* C19. Shared admission gate at training: every text of the corpus
\* download_and_prepare_data returns, all of which extract_features
\* processes, is non-empty and at least 10 characters long after trimming.
AdmissionGate ==
    ldone = "done" => \A text \in TrainingTexts : ~InvalidText(text)

\* ---------------------------------------------------------------------
\* Validation before inference (Spec).

\* The service object that gave the answer in `out` is ready.
AnsweredByReady == out.inst \in Live /\ heap[out.inst].is_ready

\* C20. Validation precedes inference work: on a ready service, detect_text
\* (called directly or through analyze_text) answers a text that is empty or
\* shorter than 10 characters after trimming with a validation error and has
\* run neither feature extraction nor the forward pass; the texts rejected
\* are those TextExtractor.validate_text rejects with its default minimum,
\* and a text of trimmed length 10 or more goes on to feature extraction.
ValidationFirst ==
    /\ \A text \in Texts :
          InvalidText(text) <=> ~ValidateText(text, DefaultMinLength)
    /\ out.op \in {"detect_text", "analyze_text"} /\ out.text # NoText
       /\ AnsweredByReady =>
          IF ~ValidateText(out.text, DefaultMinLength)
          THEN /\ out.res \in {[error |-> "Invalid input"],
                               [error |-> "Invalid text"]}
               /\ out.ran = {}
               /\ out.features = <<>>
          ELSE "extract" \in out.ran

\* C20 witness: a ready service has answered detect_text on a text of nine
\* characters.
ValidationFirstWitness ==
    /\ out.op = "detect_text"
    /\ AnsweredByReady
    /\ out.text.body = 9
    /\ out.res = [error |-> "Invalid input"]

-----------------------------------------------------------------------------
(* SpecDetect: one call of detect_text, statement by statement, with the    *)
(* exceptions its steps raise (text_detector.py lines 109-171).              *)

\* What a caller passes as `text`: a string, None, or a truthy object that
\* is no string.
DetectInputs ==
    {[kind |-> "str", text |-> t] : t \in Texts}
        \cup {[kind |-> "none", text |-> NoText],
              [kind |-> "object", text |-> NoText]}

\* The exceptions the steps of detect_text raise; all derive from Exception.
ExceptionKinds == {"AttributeError", "ValueError", "RuntimeError"}

\* The service objects a call meets: one that loaded nothing, and ready
\* ones holding a manifest and a scaler fitted on it.
DetectServices ==
    {NewService} \cup
    UNION {{[model |-> Some(0), scaler |-> Some(s),
             feature_columns |-> Some([names |-> m]),
             nlp |-> TRUE, is_ready |-> TRUE] : s \in ScalerSet(Len(m))} :
           m \in ManifestSet}

\* An except clause for ValueError alone.
CatchesValueError(exc) == exc = "ValueError"

\* `except Exception as e`
Catches(exc) == exc \in ExceptionKinds

FrameOthersUnchanged ==
    UNCHANGED <<diskVars, serveVars, trainVars, labelVars, alignVars, prepVars,
                prob, verdict, xcall, prune, history, limiter>>

\* The call returns `res`.
Return(res) ==
    /\ answer' = [ran |-> frame.ran, features |-> frame.features, res |-> res]
    /\ frame' = [frame EXCEPT !.pc = "returned"]

\* A statement inside the try block raises `exc`.
Raise(exc) ==
    /\ frame' = [frame EXCEPT !.pc = "except", !.exc = exc]
    /\ UNCHANGED answer

\* `if not self.is_ready: return {...}` (lines 119-123)
DetectGate ==
    /\ frame.pc = "call"
    /\ IF ~frame.self.is_ready
       THEN Return([error |-> "Model not loaded"])
       ELSE frame' = [frame EXCEPT !.pc = "validate"] /\ UNCHANGED answer
    /\ FrameOthersUnchanged

\* `if not text or len(text.strip()) < 10: return {...}` (lines 127-131):
\* None is falsy; an object without strip() raises AttributeError.
DetectValidate ==
    /\ frame.pc = "validate"
    /\ CASE frame.arg.kind = "none" -> Return([error |-> "Invalid input"])
         [] frame.arg.kind = "object" -> Raise("AttributeError")
         [] OTHER ->
              IF InvalidText(frame.arg.text)
              THEN Return([error |-> "Invalid input"])
              ELSE frame' = [frame EXCEPT !.pc = "extract"] /\ UNCHANGED answer
    /\ FrameOthersUnchanged

\* td.extract_metrics (line 93): the metrics of the text, or an exception of
\* the language pipeline.
DetectExtract ==
    /\ frame.pc = "extract"
    /\ \/ \E metrics \in ComputedSet :
            frame' = [frame EXCEPT !.pc = "align", !.metrics = metrics,
                                   !.ran = @ \cup {"extract"}]
       \/ \E exc \in {"ValueError", "RuntimeError"} :
            frame' = [frame EXCEPT !.pc = "except", !.exc = exc,
                                   !.ran = @ \cup {"extract"}]
    /\ UNCHANGED answer
    /\ FrameOthersUnchanged

\* reindex, fillna, scaler.transform, reshape (lines 96-105): transform
\* raises ValueError on an infinite value or an empty manifest.
DetectAlign ==
    /\ frame.pc = "align"
    /\ LET features == ExtractFeaturesSvc(frame.metrics,
                                          frame.self.feature_columns[1].names,
                                          frame.self.scaler[1])
       IN  IF features.ok
           THEN frame' = [frame EXCEPT !.pc = "predict", !.features = features.v]
           ELSE frame' = [frame EXCEPT !.pc = "except", !.exc = "ValueError"]
    /\ UNCHANGED answer
    /\ FrameOthersUnchanged

\* self.model.predict(features, verbose=0)[0][0] (line 137): a probability,
\* or an exception of the runtime.
DetectPredict ==
    /\ frame.pc = "predict"
    /\ \/ frame' = [frame EXCEPT !.pc = "build",
                       !.prob = Predict(frame.self.model[1], frame.features),
                       !.ran = @ \cup {"predict"}]
       \/ \E exc \in {"ValueError", "RuntimeError"} :
            frame' = [frame EXCEPT !.pc = "except", !.exc = exc,
                                   !.ran = @ \cup {"predict"}]
    /\ UNCHANGED answer
    /\ FrameOthersUnchanged

\* Lines 139-164: the result dictionary.
DetectBuild ==
    /\ frame.pc = "build"
    /\ Return(Verdict(frame.prob, frame.arg.text))
    /\ FrameOthersUnchanged

\* The handler of lines 166-171, or the exception leaving detect_text when
\* the handler does not catch it.
DetectExcept ==
    /\ frame.pc = "except"
    /\ IF Catches(frame.exc)
       THEN Return([error |-> "Detection failed"])
       ELSE frame' = [frame EXCEPT !.pc = "raised"] /\ UNCHANGED answer
    /\ FrameOthersUnchanged

InitDetect ==
    /\ \E self \in DetectServices, arg \in DetectInputs :
          frame = [pc |-> "call", self |-> self, arg |-> arg, metrics |-> <<>>,
                   features |-> <<>>, prob |-> -1, exc |-> "none", ran |-> {}]
    /\ DetectIdle
    /\ XCallIdle
    /\ PruneIdle
    /\ FitIdle
    /\ LimiterIdle
    /\ DiskIdle
    /\ ServeIdle
    /\ TrainIdle
    /\ LabelIdle
    /\ AlignIdle
    /\ PrepIdle

NextDetect ==
    \/ DetectGate
    \/ DetectValidate
    \/ DetectExtract
    \/ DetectAlign
    \/ DetectPredict
    \/ DetectBuild
    \/ DetectExcept

SpecDetect == InitDetect /\ [][NextDetect]_vars

SuccessKeys ==
    {"success", "classification", "ai_probability", "human_probability",
     "confidence", "confidence_score", "text_length", "word_count"}

\* C21. detect_text never raises past the service boundary: for every input
\* and a failure in any step (validation, feature extraction, reindexing
\* and transform, forward pass) no exception leaves the call, and what the
\* call returns is either a success record of exactly the success fields or
\* an error record holding none of them.
NeverRaises ==
    /\ frame.pc # "raised"
    /\ frame.pc = "returned" =>
          \/ DOMAIN answer.res = SuccessKeys /\ frame.exc = "none"
          \/ /\ DOMAIN answer.res = {"error"}
             /\ answer.res.error \in
                  {"Model not loaded", "Invalid input", "Detection failed"}
    /\ frame.pc = "returned" /\ frame.exc # "none" =>
          answer.res = [error |-> "Detection failed"]

\* C21 witness: the forward pass raised and the call returned the error
\* record.
NeverRaisesWitness ==
    /\ frame.pc = "returned"
    /\ frame.exc = "RuntimeError"
    /\ "predict" \in frame.ran
    /\ answer.res = [error |-> "Detection failed"]

-----------------------------------------------------------------------------
(* SpecExtract: TextExtractor.extract_text on a file (text_extractor.py).    *)

\* Longest file content drawn, in bytes.
MaxBytes == 2

\* The bytes drawn: 'A', the two bytes of U+00E9 in UTF-8, and 0xFF.
Bytes == {65, 195, 169, 255}

ByteSeqs == UNION {[1..n -> Bytes] : n \in 0..MaxBytes}

\* File name suffixes as Path(filepath).suffix returns them.
Suffixes == {".txt", ".TXT", ".pdf", ".Pdf", ".docx", ".DOCX", ".doc", ""}

\* str.lower() on the suffixes drawn.
Lower(suffix) ==
    CASE suffix = ".TXT"  -> ".txt"
      [] suffix = ".Pdf"  -> ".pdf"
      [] suffix = ".DOCX" -> ".docx"
      [] OTHER            -> suffix

\* bytes.decode('utf-8', errors='strict') on these bytes: ASCII stands for
\* itself, a lead byte 0xC2..0xDF takes one continuation byte 0x80..0xBF,
\* anything else is a UnicodeDecodeError.
RECURSIVE Utf8Decode(_)
Utf8Decode(bytes) ==
    IF bytes = <<>> THEN [ok |-> TRUE, text |-> <<>>]
    ELSE IF bytes[1] < 128
    THEN LET rest == Utf8Decode(Tail(bytes))
         IN  [ok |-> rest.ok,
              text |-> IF rest.ok THEN <<bytes[1]>> \o rest.text ELSE <<>>]
    ELSE IF /\ bytes[1] \in 194..223
            /\ Len(bytes) >= 2
            /\ bytes[2] \in 128..191
    THEN LET rest == Utf8Decode(Tail(Tail(bytes)))
         IN  [ok |-> rest.ok,
              text |-> IF rest.ok
                       THEN <<(bytes[1] - 192) * 64 + (bytes[2] - 128)>> \o rest.text
                       ELSE <<>>]
    ELSE [ok |-> FALSE, text |-> <<>>]

\* bytes.decode('latin-1'): every byte is the code point of its value.
Latin1Decode(bytes) == [ok |-> TRUE, text |-> bytes]

\* The files drawn: there or not, suffix, content, whether the PDF or DOCX
\* parser accepts the content.
XFiles ==
    [exists : BOOLEAN, suffix : Suffixes, bytes : ByteSeqs, parses : BOOLEAN]

Returned(text) == [kind |-> "text", text |-> text, exc |-> "none", cause |-> "none"]

\* An exception leaves the call; `cause` is the exception it wraps.
Raised(exc, cause) == [kind |-> "raise", text |-> <<>>, exc |-> exc, cause |-> cause]

\* The exception extract_text raises for a suffix it does not know.
UnsupportedFormat == "ValueError"

XOthersUnchanged ==
    UNCHANGED <<diskVars, serveVars, trainVars, labelVars, alignVars, prepVars,
                detectVars, frame, prune, history, limiter>>

\* extract_text (lines 80-94): existence, suffix, dispatch.
ExtractText ==
    /\ xcall.pc = "call"
    /\ IF ~xcall.file.exists
       THEN xcall' = [xcall EXCEPT !.pc = "done",
                         !.out = Raised("FileNotFoundError", "none")]
       ELSE LET ext == Lower(xcall.file.suffix)
            IN  CASE ext = ".txt"  -> xcall' = [xcall EXCEPT !.pc = "txt"]
                  [] ext = ".pdf"  -> xcall' = [xcall EXCEPT !.pc = "pdf"]
                  [] ext = ".docx" -> xcall' = [xcall EXCEPT !.pc = "docx"]
                  [] OTHER -> xcall' = [xcall EXCEPT !.pc = "done",
                                           !.out = Raised(UnsupportedFormat, "none")]
    /\ XOthersUnchanged

\* extract_from_txt with the fallback read as the first.
ExtractFromTxtStrict(x) ==
    LET primary == Utf8Decode(x.file.bytes)
    IN  [x EXCEPT !.pc = "done", !.opened = @ \cup {"utf-8"},
                  !.out = IF primary.ok THEN Returned(primary.text)
                          ELSE Raised("UnicodeDecodeError", "none")]

\* extract_from_txt (lines 18-27) on the call x.
ExtractFromTxtOn(x) ==
    LET primary == Utf8Decode(x.file.bytes)
    IN  IF primary.ok
        THEN [x EXCEPT !.pc = "done", !.opened = @ \cup {"utf-8"},
                       !.out = Returned(primary.text)]
        ELSE [x EXCEPT !.pc = "done", !.opened = @ \cup {"utf-8", "latin-1"},
                       !.out = Returned(Latin1Decode(x.file.bytes).text)]

ExtractFromTxt ==
    /\ xcall.pc = "txt"
    /\ xcall' = ExtractFromTxtOn(xcall)
    /\ XOthersUnchanged

\* extract_from_pdf / extract_from_docx (lines 29-66) on the call x:
\* ImportError becomes ValueError; any other exception is logged and raised
\* again as it is.
ParseOn(x, parser, failure) ==
    IF ~x.installed
    THEN [x EXCEPT !.pc = "done", !.out = Raised("ValueError", "none")]
    ELSE IF ~x.file.parses
    THEN [x EXCEPT !.pc = "done", !.opened = @ \cup {parser},
                   !.out = Raised(failure, "none")]
    ELSE [x EXCEPT !.pc = "done", !.opened = @ \cup {parser},
                   !.out = Returned(x.file.bytes)]

ExtractFromPdf ==
    /\ xcall.pc = "pdf"
    /\ xcall' = ParseOn(xcall, "pdf", "PdfReadError")
    /\ XOthersUnchanged

ExtractFromDocx ==
    /\ xcall.pc = "docx"
    /\ xcall' = ParseOn(xcall, "docx", "PackageNotFoundError")
    /\ XOthersUnchanged

InitExtract ==
    /\ \E file \in XFiles, installed \in BOOLEAN :
          xcall = [pc |-> "call", file |-> file, installed |-> installed,
                   opened |-> {}, out |-> Returned(<<>>)]
    /\ FrameIdle
    /\ PruneIdle
    /\ FitIdle
    /\ LimiterIdle
    /\ DetectIdle
    /\ DiskIdle
    /\ ServeIdle
    /\ TrainIdle
    /\ LabelIdle
    /\ AlignIdle
    /\ PrepIdle

NextExtract ==
    \/ ExtractText
    \/ ExtractFromTxt
    \/ ExtractFromPdf
    \/ ExtractFromDocx

SpecExtract == InitExtract /\ [][NextExtract]_vars

Recognized == {".txt", ".pdf", ".docx"}

\* C22. Format dispatch: for an existing file extract_text goes by the
\* lower-cased suffix to exactly one of the three extractors; any other
\* suffix fails with the unsupported-format error without the file being
\* opened; a parse failure of a recognized format fails with an error of
\* another kind that wraps the parser's exception.
FormatDispatch ==
    xcall.pc = "done" /\ xcall.file.exists =>
        IF Lower(xcall.file.suffix) \notin Recognized
        THEN /\ xcall.out = Raised(UnsupportedFormat, "none")
             /\ xcall.opened = {}
        ELSE /\ Cardinality(xcall.opened \ {"latin-1"}) <= 1
             /\ Lower(xcall.file.suffix) # ".txt" /\ xcall.installed
                /\ ~xcall.file.parses =>
                    /\ xcall.out.kind = "raise"
                    /\ xcall.out.exc \notin {UnsupportedFormat, xcall.out.cause}
                    /\ xcall.out.cause \in {"PdfReadError", "PackageNotFoundError"}

\* C23. Encoding fallback: for an existing plain-text file of any bytes
\* extract_from_txt returns a text: the UTF-8 decoding when the bytes are
\* valid UTF-8, and only otherwise the Latin-1 decoding, one character per
\* byte; no exception leaves the call.
EncodingFallback ==
    xcall.pc = "done" /\ xcall.file.exists /\ Lower(xcall.file.suffix) = ".txt" =>
        /\ xcall.out.kind = "text"
        /\ IF Utf8Decode(xcall.file.bytes).ok
           THEN /\ xcall.out.text = Utf8Decode(xcall.file.bytes).text
                /\ xcall.opened = {"utf-8"}
           ELSE /\ xcall.out.text = xcall.file.bytes
                /\ xcall.opened = {"utf-8", "latin-1"}

\* C23 witness: a file holding U+00E9 in UTF-8 was read as one character,
\* and a file holding 0xFF was read through the fallback.
EncodingFallbackWitness ==
    /\ xcall.pc = "done" /\ xcall.file.exists
    /\ Lower(xcall.file.suffix) = ".txt"
    /\ xcall.file.bytes = <<255, 65>>
    /\ xcall.out = Returned(<<255, 65>>)

-----------------------------------------------------------------------------
(* The rows the normalizer is fitted on (SpecPrep).                          *)

\* The rows of a partition with a value present in every column kept.
CompleteRows(rows, columns) ==
    [l \in Labels |-> [v \in Vectors |->
        IF \A i \in 1..Len(columns) : ~IsNaN(Project(v, columns)[i])
        THEN rows[l][v] ELSE 0]]

\* C24. Non-finite rows are filtered before the fit: the mean and scale
\* prepare_training_data returns are those of the training rows that survive
\* row pruning, so that a training row dropped for a missing value has no
\* part in them.
FitOnSurvivors ==
    pstage = "prepared" =>
        LET survivors == CompleteRows(parts.train, feature_columns)
        IN  /\ KeptRows(train_scaler, feature_columns, parts.train) = survivors
            /\ \A i \in 1..Len(feature_columns) :
                  NonMissing(survivors, ColIndex(feature_columns[i])) > 0
            /\ train_scaler = FitScaler(survivors, feature_columns)

-----------------------------------------------------------------------------
(* SpecPrune: lines 216-237 of prepare_training_data on one partition, its   *)
(* rows in order.                                                            *)

\* The raw rows drawn: those of Vectors and one with an infinite value.
PruneVectors == Vectors \cup {<<PosInf, Num(1)>>}

\* A partition: up to MaxRows rows in order, each a label and raw values.
Partitions ==
    UNION {[1..n -> [label : Labels, raw : PruneVectors]] : n \in 0..MaxRows}

\* scaler.transform(X): row by row; one infinite value and the call raises.
TransformAll(scaler, rows) ==
    LET t == [i \in DOMAIN rows |-> Transform(scaler, rows[i].raw)]
    IN  [ok |-> \A i \in DOMAIN rows : t[i].ok,
         v  |-> [i \in DOMAIN rows |-> t[i].v]]

\* A mask that drops a row only when all its values are NaN.
MaskOfAll(X_scaled) ==
    [i \in DOMAIN X_scaled |->
        ~(\A j \in DOMAIN X_scaled[i] : IsNaN(X_scaled[i][j]))]

\* ~np.isnan(X_scaled).any(axis=(1, 2))
MaskOf(X_scaled) ==
    [i \in DOMAIN X_scaled |->
        ~(\E j \in DOMAIN X_scaled[i] : IsNaN(X_scaled[i][j]))]

\* a[mask] and Series.iloc[mask]: the entries whose mask is True, in order.
RECURSIVE BooleanIndex(_, _)
BooleanIndex(a, mask) ==
    IF a = <<>> THEN <<>>
    ELSE LET n == Len(a)
             front == BooleanIndex(SubSeq(a, 1, n - 1), SubSeq(mask, 1, n - 1))
         IN  IF mask[n] THEN Append(front, a[n]) ELSE front

PruneOthersUnchanged ==
    UNCHANGED <<diskVars, serveVars, trainVars, labelVars, alignVars, prepVars,
                detectVars, frame, xcall, history, limiter>>

\* scaler.transform raises ValueError on an infinite value.
TransformRaises ==
    /\ prune.pc = "call"
    /\ ~TransformAll(prune.scaler, prune.rows).ok
    /\ prune' = [prune EXCEPT !.pc = "raised"]
    /\ PruneOthersUnchanged

\* Lines 217-224: the partition scaled.
TransformPartition ==
    /\ prune.pc = "call"
    /\ TransformAll(prune.scaler, prune.rows).ok
    /\ prune' = [prune EXCEPT !.pc = "scaled",
                    !.scaled = TransformAll(prune.scaler, prune.rows).v]
    /\ PruneOthersUnchanged

\* Lines 226-237: the mask, applied to the scaled rows and to the labels.
MaskPartition ==
    /\ prune.pc = "scaled"
    /\ LET mask == MaskOf(prune.scaled)
           y == [i \in DOMAIN prune.rows |-> prune.rows[i].label]
       IN  prune' = [prune EXCEPT !.pc = "returned",
                        !.X = BooleanIndex(prune.scaled, mask),
                        !.y = BooleanIndex(y, mask)]
    /\ PruneOthersUnchanged

InitPrune ==
    /\ \E rows \in Partitions, scaler \in ScalerSet(Len(Cols)) :
          prune = [pc |-> "call", rows |-> rows, scaler |-> scaler,
                   scaled |-> <<>>, X |-> <<>>, y |-> <<>>]
    /\ FrameIdle
    /\ XCallIdle
    /\ FitIdle
    /\ LimiterIdle
    /\ DetectIdle
    /\ DiskIdle
    /\ ServeIdle
    /\ TrainIdle
    /\ LabelIdle
    /\ AlignIdle
    /\ PrepIdle

NextPrune == TransformRaises \/ TransformPartition \/ MaskPartition

SpecPrune == InitPrune /\ [][NextPrune]_vars

\* The positions of the partition's rows that have no non-finite value.
FiniteRows(rows) ==
    {i \in DOMAIN rows : \A j \in DOMAIN rows[i].raw : IsFinite(rows[i].raw[j])}

\* C25. Row pruning: the feature array returned for a partition holds
\* exactly the partition's rows without a non-finite value, in their order,
\* and the label array has the same length, its entry i being the label of
\* the sample in row i of the feature array.
RowPruning ==
    prune.pc = "returned" =>
        LET keep == FiniteRows(prune.rows)
            m == Len(prune.X)
        IN  /\ m = Cardinality(keep)
            /\ Len(prune.y) = m
            /\ \E f \in [1..m -> keep] :
                  /\ \A k \in 1..m : \A k2 \in 1..m : k < k2 => f[k] < f[k2]
                  /\ \A k \in 1..m :
                        /\ prune.X[k] = Transform(prune.scaler, prune.rows[f[k]].raw).v
                        /\ prune.y[k] = prune.rows[f[k]].label

\* C25 witness: of three rows the middle one, of the other label, had a
\* missing value and was dropped.
RowPruningWitness ==
    /\ prune.pc = "returned"
    /\ Len(prune.rows) = 3
    /\ prune.rows[1].label = 0 /\ prune.rows[2].label = 1 /\ prune.rows[3].label = 0
    /\ FiniteRows(prune.rows) = {1, 3}
    /\ prune.y = <<0, 0>>

-----------------------------------------------------------------------------
(* SpecFit: model.fit with EarlyStopping, ReduceLROnPlateau (train_model,   *)
(* lines 303-348), epoch by epoch over every sequence of validation losses. *)

\* Epoch limit of the runs explored (production: epochs = 150).
MaxEpochs == 7

\* Patience of EarlyStopping in the runs explored (production: 10).
EsPatience == 4

\* Patience of ReduceLROnPlateau (production).
LrPatience == 3

\* Validation losses, in units of 0.00005.
LossValues == {0, 1, 2, 3}

\* min_delta of ReduceLROnPlateau (its default, 1e-4) in those units;
\* EarlyStopping's default is 0.
MinDelta == 2

\* The monitored best before the first epoch (np.inf).
LossInf == 1000

\* The learning rate build_model compiles with, in units that halve exactly.
Lr0 == 2 ^ MaxEpochs

\* EarlyStopping stopping one epoch later.
EsStopsLate(wait) == wait > EsPatience

\* EarlyStopping: `if self.wait >= self.patience`
EsStops(wait) == wait >= EsPatience

\* EarlyStopping.on_epoch_end for the epoch just run.
EsEpochEnd(es, epoch, current) ==
    IF current < es.best
    THEN [best |-> current, wait |-> 0, best_epoch |-> epoch, stop |-> FALSE]
    ELSE [es EXCEPT !.wait = @ + 1, !.stop = EsStops(es.wait + 1)]

\* ReduceLROnPlateau.on_epoch_end: factor 0.5, no cooldown, min_lr 0.
LrEpochEnd(cb, current) ==
    IF current < cb.best - MinDelta
    THEN [cb EXCEPT !.best = current, !.wait = 0]
    ELSE IF cb.wait + 1 >= LrPatience
    THEN [cb EXCEPT !.wait = 0, !.lr = @ \div 2]
    ELSE [cb EXCEPT !.wait = @ + 1]

FitOthersUnchanged ==
    UNCHANGED <<diskVars, serveVars, trainVars, labelVars, alignVars, prepVars,
                detectVars, frame, xcall, prune, limiter>>

\* One epoch: the weights are now this epoch's, the callbacks see val_loss.
EpochEnd ==
    /\ history.pc = "training"
    /\ \E current \in LossValues :
          LET epoch == Len(history.val_loss) + 1
              es == EsEpochEnd(history.es, epoch, current)
          IN  history' = [history EXCEPT
                  !.val_loss = Append(@, current),
                  !.weights = epoch,
                  !.es = es,
                  !.reduce_lr = LrEpochEnd(@, current),
                  !.pc = IF es.stop THEN "stopping"
                         ELSE IF epoch = MaxEpochs THEN "finishing"
                         ELSE "training"]
    /\ FitOthersUnchanged

\* stop_training was set: the best weights are put back, fit returns.
FitStoppedEarly ==
    /\ history.pc = "stopping"
    /\ history' = [history EXCEPT !.pc = "stopped_early",
                                  !.weights = history.es.best_epoch]
    /\ FitOthersUnchanged

\* The last epoch has run: on_train_end puts the best weights back in the
\* Keras releases that do so, fit returns.
FitReachedLimit ==
    /\ history.pc = "finishing"
    /\ history' = [history EXCEPT !.pc = "converged",
                      !.weights = IF history.restores_at_end
                                  THEN history.es.best_epoch ELSE @]
    /\ FitOthersUnchanged

\* model.fit is entered; the installed Keras restores the best weights at
\* the end of every training, or after an early stop only.
InitFit ==
    /\ \E restores_at_end \in BOOLEAN :
          history = [pc |-> "training", val_loss |-> <<>>, weights |-> 0,
                     es |-> [best |-> LossInf, wait |-> 0, best_epoch |-> 0,
                             stop |-> FALSE],
                     reduce_lr |-> [best |-> LossInf, wait |-> 0, lr |-> Lr0],
                     restores_at_end |-> restores_at_end]
    /\ FrameIdle
    /\ XCallIdle
    /\ PruneIdle
    /\ LimiterIdle
    /\ DetectIdle
    /\ DiskIdle
    /\ ServeIdle
    /\ TrainIdle
    /\ LabelIdle
    /\ AlignIdle
    /\ PrepIdle

NextFit == EpochEnd \/ FitStoppedEarly \/ FitReachedLimit

SpecFit == InitFit /\ [][NextFit]_vars

\* The lowest of the first n losses.
RECURSIVE LowestOf(_, _)
LowestOf(losses, n) ==
    IF n = 0 THEN LossInf
    ELSE LET rest == LowestOf(losses, n - 1)
         IN  IF losses[n] < rest THEN losses[n] ELSE rest

\* Epoch i brought no validation loss below all earlier ones.
NotImproved(losses, i) == losses[i] >= LowestOf(losses, i - 1)

\* The first epoch with the lowest validation loss.
BestEpoch(losses) ==
    CHOOSE i \in 1..Len(losses) :
        /\ losses[i] = LowestOf(losses, Len(losses))
        /\ \A j \in 1..(i - 1) : losses[j] > losses[i]

\* Epoch i ends n consecutive epochs without improvement.
Streak(losses, i, n) ==
    /\ i - n >= 0
    /\ \A j \in (i - n + 1)..i : NotImproved(losses, j)

\* The reference ReduceLROnPlateau compares with after epoch n: the last
\* loss that was more than min_delta below the reference before it.
RECURSIVE Reference(_, _)
Reference(losses, n) ==
    IF n = 0 THEN LossInf
    ELSE LET before == Reference(losses, n - 1)
         IN  IF losses[n] < before - MinDelta THEN losses[n] ELSE before

\* Epoch i did not bring the loss more than min_delta below the reference.
Plateau(losses, i) == ~(losses[i] < Reference(losses, i - 1) - MinDelta)

\* The epochs at which the learning rate is halved: LrPatience epochs on
\* the plateau in a row, none of the earlier ones a halving epoch.
RECURSIVE HalvedAt(_, _)
HalvedAt(losses, i) ==
    /\ i - LrPatience >= 0
    /\ \A j \in (i - LrPatience + 1)..i : Plateau(losses, j)
    /\ \A j \in (i - LrPatience + 1)..(i - 1) : ~HalvedAt(losses, j)

\* The same with "no improvement" for the plateau.
RECURSIVE HalvedAtStated(_, _)
HalvedAtStated(losses, i) ==
    /\ Streak(losses, i, LrPatience)
    /\ \A j \in (i - LrPatience + 1)..(i - 1) : ~HalvedAtStated(losses, j)

Ended == history.pc \in {"stopped_early", "converged"}

\* Ending and stopping epoch, common to the statement and its amendment.
StopsWhenStated ==
    LET losses == history.val_loss
        n == Len(losses)
    IN  /\ n <= MaxEpochs
        /\ history.pc \in {"training", "finishing", "converged"} =>
              \A i \in 1..n : ~Streak(losses, i, EsPatience)
        /\ history.pc \in {"stopping", "stopped_early"} =>
              /\ Streak(losses, n, EsPatience)
              /\ \A i \in 1..(n - 1) : ~Streak(losses, i, EsPatience)
        /\ history.pc = "converged" => n = MaxEpochs

\* C26 as stated. Early stopping: training ends no later than the epoch
\* limit and ends early at the first epoch at which the validation loss has
\* not improved for patience epochs in a row; the learning rate is halved
\* each time the validation loss has not improved for 3 epochs in a row; in
\* both endings the weights kept are those of the epoch with the lowest
\* validation loss.
EarlyStoppingAsStated ==
    /\ StopsWhenStated
    /\ history.pc # "off" =>
          LET losses == history.val_loss
              halvings == Cardinality({i \in 1..Len(losses) : HalvedAtStated(losses, i)})
          IN  /\ history.reduce_lr.lr * 2 ^ halvings = Lr0
              /\ Ended => history.weights = BestEpoch(losses)

\* C26 amended. Training ends no later than the epoch limit and ends early
\* at the first epoch at which the validation loss has not improved for
\* patience epochs in a row; the learning rate is halved each time 3 epochs
\* in a row, none of them a halving epoch, have not brought the validation
\* loss more than min_delta (1e-4) below the reference of the plateau; after
\* an early stop the weights kept are those of the epoch with the lowest
\* validation loss, and at the epoch limit they are those of that epoch or
\* of the final epoch, depending on the Keras release.
EarlyStopping ==
    /\ StopsWhenStated
    /\ history.pc # "off" =>
          LET losses == history.val_loss
              halvings == Cardinality({i \in 1..Len(losses) : HalvedAt(losses, i)})
          IN  /\ history.reduce_lr.lr * 2 ^ halvings = Lr0
              /\ history.pc = "stopped_early" => history.weights = BestEpoch(losses)
              /\ history.pc = "converged" =>
                    history.weights = IF history.restores_at_end
                                      THEN BestEpoch(losses) ELSE MaxEpochs

\* C26 witness: the run stopped early before the epoch limit, after the
\* learning rate was halved, on the weights of an epoch that was not the last.
EarlyStoppingWitness ==
    /\ history.pc = "stopped_early"
    /\ Len(history.val_loss) < MaxEpochs
    /\ history.reduce_lr.lr < Lr0
    /\ history.weights < Len(history.val_loss)

-----------------------------------------------------------------------------
(* The reported values of a success record (SpecVerdict).                    *)

\* C27. Reported values are self-consistent: in a success record the
\* reported ai_probability and human_probability lie in [0,1] and sum to 1,
\* the reported confidence_score is their maximum and at least 0.5, the band
\* is the one the banding rule gives the reported confidence_score, and the
\* classification is AI-Generated exactly when the reported ai_probability
\* exceeds the reported human_probability.
ReportedConsistent ==
    verdict # None =>
        LET v == verdict[1]
        IN  /\ v.ai_probability \in 0..ProbUnit
            /\ v.human_probability \in 0..ProbUnit
            /\ v.ai_probability + v.human_probability = ProbUnit
            /\ v.confidence_score = Max(v.ai_probability, v.human_probability)
            /\ 2 * v.confidence_score >= ProbUnit
            /\ (10 * v.confidence_score >= 9 * ProbUnit) <=> (v.confidence = "high")
            /\ (10 * v.confidence_score < 7 * ProbUnit) <=> (v.confidence = "low")
            /\ (v.classification = "AI-Generated") <=>
                  (v.ai_probability > v.human_probability)

-----------------------------------------------------------------------------
(* SpecServeTrain: the serving process and the training script at work on   *)
(* the same artifact directory; one training run that is not interrupted.   *)

\* The artifact directory both start on: empty, or holding the bundle and
\* metrics of an earlier run (run 0).
InitServeTrain ==
    /\ \/ disk = [f \in Files |-> Absent]
       \/ disk = [f \in Files |-> Written(0)]
    /\ dirs = {"models", "data"}
    /\ ServeIdle
    /\ TrainIdle
    /\ LabelIdle
    /\ PrepIdle
    /\ DetectIdle
    /\ MoreIdle
    /\ AlignIdle

\* `python train_text_detector.py` while the server is up.
Retrain == run = 0 /\ StartRun

NextServeTrain == Next \/ Retrain \/ StageDone \/ SaveOpen \/ SaveWrite

SpecServeTrain == InitServeTrain /\ [][NextServeTrain]_vars

\* C28. Readiness is fixed at construction: once get_text_detector has
\* stored an instance, no step replaces the stored instance and no step
\* changes its is_ready flag or its loaded artifacts, whatever the training
\* script writes meanwhile.
ReadinessFixedStep ==
    instance # None =>
        /\ instance' = instance
        /\ heap'[instance[1]] = heap[instance[1]]

ReadinessFixed == [][ReadinessFixedStep]_vars

\* The part of C28 about one object: while an instance stays stored, its
\* fields do not change.
StoredObjectFixedStep ==
    instance # None /\ instance' = instance =>
        heap'[instance[1]] = heap[instance[1]]

StoredObjectFixed == [][StoredObjectFixedStep]_vars

\* The training runs whose files a service object was loaded from.
LoadedRuns(s) ==
    {s.model[i] : i \in DOMAIN s.model}
        \cup {s.scaler[i].run : i \in DOMAIN s.scaler}
        \cup {s.feature_columns[i].run : i \in DOMAIN s.feature_columns}

\* C29. Consistent bundle under concurrent retraining: a service object that
\* has become ready holds a classifier, a normalizer and a manifest that
\* were all written by the same training run, however the steps of
\* _load_model and of save_artifacts interleave.
ConsistentBundle ==
    \A i \in ObjIds :
        heap[i] # Freed /\ heap[i].is_ready =>
            Cardinality(LoadedRuns(heap[i])) = 1

-----------------------------------------------------------------------------
(* SpecLimit: the rate_limit decorator (api_server_v2.py and                *)
(* backend/app/server.py, same code) under app.run(threaded=True): each     *)
(* request runs `wrapped` in its own thread, and the threads share the      *)
(* module-level dictionary request_counts. A step is what one thread does   *)
(* between two points where the interpreter may switch threads.             *)

\* request.remote_addr
Clients == {"a", "b"}

\* The window of the filter `current_time - t < 60`, in clock ticks of 30 s.
Window == 2

\* The last reading of time.time(), in ticks.
MaxClock == 3

\* max_requests of the decorated handler.
MaxRequests == 2

\* Requests that arrive in all.
MaxArrivals == 4

Times == 0..MaxClock

\* A thread of the server with no request.
NoRequest == [pc |-> "idle", client_ip |-> "", current_time |-> 0, kept |-> <<>>]

\* What the step just taken answered: nothing yet.
NoStatus == [thread |-> 0, status |-> 0]

LimitOthersUnchanged ==
    UNCHANGED <<diskVars, serveVars, trainVars, labelVars, alignVars, prepVars,
                detectVars, frame, xcall, prune, history>>

\* The request of thread t moves to `next`.
Goto(t, next) == [limiter.req EXCEPT ![t].pc = next]

\* A request arrives: `client_ip = request.remote_addr or 'unknown'`,
\* `current_time = time.time()`.
Arrive(t) ==
    /\ limiter.req[t].pc = "idle"
    /\ limiter.arrivals < MaxArrivals
    /\ \E c \in Clients :
          limiter' = [limiter EXCEPT
              !.req[t] = [pc |-> "check_key", client_ip |-> c,
                          current_time |-> limiter.now, kept |-> <<>>],
              !.arrivals = @ + 1,
              !.last = NoStatus]
    /\ LimitOthersUnchanged

\* `if client_ip not in request_counts`
CheckKey(t) ==
    /\ limiter.req[t].pc = "check_key"
    /\ limiter' = [limiter EXCEPT
          !.req = Goto(t, IF limiter.req[t].client_ip \in DOMAIN limiter.request_counts
                          THEN "filter" ELSE "init_key"),
          !.last = NoStatus]
    /\ LimitOthersUnchanged

\* `request_counts[client_ip] = []`
InitKey(t) ==
    /\ limiter.req[t].pc = "init_key"
    /\ limiter' = [limiter EXCEPT
          !.request_counts =
              [c \in DOMAIN limiter.request_counts \cup {limiter.req[t].client_ip} |->
                  IF c = limiter.req[t].client_ip THEN <<>>
                  ELSE limiter.request_counts[c]],
          !.req = Goto(t, "filter"),
          !.last = NoStatus]
    /\ LimitOthersUnchanged

\* `[t for t in request_counts[client_ip] if current_time - t < 60]`
Recent(stamps, current_time) ==
    SelectSeq(stamps, LAMBDA x : current_time - x < Window)

\* The list comprehension is evaluated on the list as it is now.
FilterRead(t) ==
    /\ limiter.req[t].pc = "filter"
    /\ LET r == limiter.req[t]
       IN  limiter' = [limiter EXCEPT
               !.req[t] = [r EXCEPT
                   !.kept = Recent(limiter.request_counts[r.client_ip], r.current_time),
                   !.pc = "store"],
               !.last = NoStatus]
    /\ LimitOthersUnchanged

\* `request_counts[client_ip] = [...]`: the new list replaces the old one.
FilterStore(t) ==
    /\ limiter.req[t].pc = "store"
    /\ limiter' = [limiter EXCEPT
          !.request_counts[limiter.req[t].client_ip] = limiter.req[t].kept,
          !.req = Goto(t, "check"),
          !.last = NoStatus]
    /\ LimitOthersUnchanged

\* `if len(request_counts[client_ip]) >= max_requests: return ..., 429`
CheckLimit(t) ==
    /\ limiter.req[t].pc = "check"
    /\ IF Len(limiter.request_counts[limiter.req[t].client_ip]) >= MaxRequests
       THEN limiter' = [limiter EXCEPT
                !.req[t] = NoRequest,
                !.last = [thread |-> t, status |-> 429]]
       ELSE limiter' = [limiter EXCEPT
                !.req = Goto(t, "append"),
                !.last = NoStatus]
    /\ LimitOthersUnchanged

\* `request_counts[client_ip].append(current_time)`: the request is admitted.
Record(t) ==
    /\ limiter.req[t].pc = "append"
    /\ LET r == limiter.req[t]
       IN  limiter' = [limiter EXCEPT
               !.request_counts[r.client_ip] = Append(@, r.current_time),
               !.admitted[r.client_ip][r.current_time] = @ + 1,
               !.req = Goto(t, "handler"),
               !.last = NoStatus]
    /\ LimitOthersUnchanged

\* `return f(*args, **kwargs)`
Handler(t) ==
    /\ limiter.req[t].pc = "handler"
    /\ limiter' = [limiter EXCEPT
          !.req[t] = NoRequest,
          !.last = [thread |-> t, status |-> 200]]
    /\ LimitOthersUnchanged

\* Time passes.
Tick ==
    /\ limiter.now < MaxClock
    /\ limiter' = [limiter EXCEPT !.now = @ + 1, !.last = NoStatus]
    /\ LimitOthersUnchanged

\* The server process after the module is imported: `request_counts = {}`.
InitLimit ==
    /\ limiter = [pc |-> "on", now |-> 0, request_counts |-> <<>>,
                  req |-> [t \in Threads |-> NoRequest],
                  admitted |-> [c \in Clients |-> [x \in Times |-> 0]],
                  arrivals |-> 0, last |-> NoStatus]
    /\ DiskIdle
    /\ ServeIdle
    /\ TrainIdle
    /\ LabelIdle
    /\ PrepIdle
    /\ DetectIdle
    /\ AlignIdle
    /\ FrameIdle
    /\ XCallIdle
    /\ PruneIdle
    /\ FitIdle

NextLimit ==
    \/ Tick
    \/ \E t \in Threads :
          \/ Arrive(t)
          \/ CheckKey(t)
          \/ InitKey(t)
          \/ FilterRead(t)
          \/ FilterStore(t)
          \/ CheckLimit(t)
          \/ Record(t)
          \/ Handler(t)

SpecLimit == InitLimit /\ [][NextLimit]_vars

\* Requests of client c admitted with a time stamp in the window from s on.
AdmittedIn(c, s) ==
    SumOver(limiter.admitted[c], {x \in Times : s <= x /\ x < s + Window})

\* No client has more than max_requests requests admitted in one window.
WindowBound ==
    \A c \in Clients : \A s \in Times : AdmittedIn(c, s) <= MaxRequests

\* A request answered 429 is not recorded and does not reach the handler;
\* a request of one client leaves the other clients' records alone; the
\* filter leaves no time stamp one window old or older.
LimitStep ==
    /\ limiter'.last.status = 429 =>
          /\ limiter'.request_counts = limiter.request_counts
          /\ limiter'.admitted = limiter.admitted
    /\ \A t \in Threads :
          limiter'.req[t] # limiter.req[t] /\ limiter.req[t].pc # "idle" =>
              \A c \in DOMAIN limiter.request_counts \ {limiter.req[t].client_ip} :
                  /\ limiter'.request_counts[c] = limiter.request_counts[c]
                  /\ limiter'.admitted[c] = limiter.admitted[c]
    /\ \A t \in Threads :
          limiter.req[t].pc = "store" /\ limiter'.req[t].pc = "check" =>
              \A i \in DOMAIN limiter'.request_counts[limiter.req[t].client_ip] :
                  limiter.req[t].current_time
                      - limiter'.request_counts[limiter.req[t].client_ip][i] < Window

\* C30. Rate limit: for every client and every interleaving of the request
\* threads, at most max_requests requests are admitted in any window of 60
\* seconds; a request answered 429 is not recorded and does not run the
\* handler; time stamps of 60 seconds or older are discarded; one client's
\* requests never count against another client.
RateLimit == []WindowBound /\ [][LimitStep]_vars

\* The parts of C30 that are about one step.
RateLimitSteps == [][LimitStep]_vars

====
